---- MODULE Spec2Model ----
(***************************************************************************)
(* The Workshop: service registry and lifecycle manager                    *)
(* (app/services/service_manager.py), self-healer (app/services/healer.py) *)
(* and incident log (app/services/incident_logger.py).                     *)
(*                                                                         *)
(* A service dict of the registry is a heap object: threads hold           *)
(* references (svc) to it and mutate it in place, inside or outside the    *)
(* registry lock.  A `with self._lock` block is one atomic step; every     *)
(* process launch, signal, network request and sleep ends a step.          *)
(***************************************************************************)
EXTENDS Integers, Sequences, FiniteSets, TLC

VARIABLES
    objs,       \* heap of service dicts: Seq of records (ServiceManager._services values)
    reg,        \* ServiceManager._services: id -> reference into objs
    alive,      \* launched processes that were not sent a signal: <<pid, service id>>
    call,       \* per thread: the frame of its ServiceManager call
    prev,       \* per thread: op, id and result of the call before the current one (history)
    nCalls,     \* number of API calls started (history, bounds a run)
    hl,         \* frame of the health-check thread (_health_loop), with the
                \* flag _running, whether the thread is alive, and the last
                \* of start_health_loop / stop_health_loop called (history)
    nCycles,    \* number of health-loop cycles started (history, bounds a run)
    healing,    \* SelfHealer._healing: app_id -> True while healing
    heal,       \* per healing thread: the frame of _heal
    db,         \* table incidents of incidents.db, in insertion order
    counter,    \* incident_logger._counter
    now,        \* the clock log_event stamps records with
    storage,    \* whether incidents.db can be written: "up" or "down"
    issued,     \* greatest sequence number log_event has returned since the
                \* table was last cleared (history)
    pool,       \* healing threads on_health_failure can still create
    hf          \* the last on_health_failure call: app_id and outcome (history)

mgrVars == <<objs, reg, alive, call>>
apiVars == <<prev, nCalls>>
loopVars == <<hl, nCycles>>
healVars == <<healing, heal, pool, hf>>
logVars == <<db, counter, now, storage, issued>>
vars == <<objs, reg, alive, call, prev, nCalls, hl, nCycles,
          healing, heal, pool, db, counter, now, storage, issued, hf>>

(***************************************************************************)
(* Bounds of the model.                                                    *)
(***************************************************************************)
MaxPid == 3        \* size of the pid table: a launch with no free pid fails
MaxCalls == 3      \* API calls started in one run
MaxCycles == 1     \* health-loop cycles started in one run
MaxEvents == 3     \* log_event calls made directly in one run

None == 0          \* Python's None for pid, started_at, last_health_check, svc

(***************************************************************************)
(* The definition source, parsed (registry.yaml; yaml.safe_load): a        *)
(* depends on b and on the ghost g, b on g; start_command TRUE = a         *)
(* non-empty command.  gcmd: whether the ghost entry carries one.          *)
(***************************************************************************)
DefinitionOf(gcmd) ==
    << [id |-> "a", group |-> "core", ghost |-> FALSE,
        dependencies |-> <<"b", "g">>, start_command |-> TRUE],
       [id |-> "b", group |-> "core", ghost |-> FALSE,
        dependencies |-> <<"g">>, start_command |-> TRUE],
       [id |-> "g", group |-> "lab", ghost |-> TRUE,
        dependencies |-> <<>>, start_command |-> gcmd] >>

Definition == DefinitionOf(TRUE)

\* Identifiers callers pass: the registered ones and an unknown one.
ArgIds == {Definition[i].id : i \in DOMAIN Definition} \cup {"x"}

Callers == {"c1", "c2"}
HealthThread == "hl"
WorkerOrder == <<"w1", "w2">>    \* threads named heal-<app_id>
Workers == {WorkerOrder[i] : i \in DOMAIN WorkerOrder}
Threads == Callers \cup {HealthThread} \cup Workers

\* _load_registry, first load: runtime fields take their defaults.
LoadEntry(svc) ==
    [id |-> svc.id, group |-> svc.group, ghost |-> svc.ghost,
     dependencies |-> svc.dependencies, start_command |-> svc.start_command,
     status |-> "stopped", health |-> "unknown", pid |-> None,
     started_at |-> None, last_health_check |-> None, restart_count |-> 0]

\* self._services.get(service_id): a reference, or None.
Lookup(id) == IF id \in DOMAIN reg THEN reg[id] ELSE None

Min(S) == CHOOSE x \in S : \A y \in S : x <= y

\* Pids the operating system can hand to a new process.
FreePids(w) ==
    (1..MaxPid) \ ({q[1] : q \in w.alive} \cup {w.objs[i].pid : i \in DOMAIN w.objs})

(***************************************************************************)
(* Process management.  w is the pair [objs, alive].                       *)
(***************************************************************************)
\* How a launch ends: "skipped" (no start_command), "ok" (Popen returned a
\* process) or "fail" (Popen raised; also when the pid table is full).
LaunchResult(w, svc, launch) ==
    IF ~w.objs[svc].start_command THEN "skipped"
    ELSE IF launch = "ok" /\ FreePids(w) # {} THEN "ok"
    ELSE "fail"

\* Faulty variant: _spawn leaving the status alone when Popen raises.
_spawn_keep(w, svc, launch) ==
    CASE LaunchResult(w, svc, launch) = "skipped" -> w
      [] LaunchResult(w, svc, launch) = "ok" ->
           LET p == Min(FreePids(w)) IN
           [objs |-> [w.objs EXCEPT ![svc].pid = p,
                                    ![svc].status = "starting",
                                    ![svc].started_at = 1],
            alive |-> w.alive \cup {<<p, w.objs[svc].id>>}]
      [] OTHER -> w

\* _spawn: no command: skip; Popen succeeds: pid, status, started_at;
\* Popen raises: status stopped.
_spawn(w, svc, launch) ==
    CASE LaunchResult(w, svc, launch) = "skipped" -> w
      [] LaunchResult(w, svc, launch) = "ok" ->
           LET p == Min(FreePids(w)) IN
           [objs |-> [w.objs EXCEPT ![svc].pid = p,
                                    ![svc].status = "starting",
                                    ![svc].started_at = 1],
            alive |-> w.alive \cup {<<p, w.objs[svc].id>>}]
      [] OTHER -> [w EXCEPT !.objs[svc].status = "stopped"]

\* Faulty variant: _kill clearing pid and started_at only.
_kill_keep(w, svc) ==
    [objs |-> [w.objs EXCEPT ![svc].pid = None,
                             ![svc].started_at = None],
     alive |-> {q \in w.alive : q[1] # w.objs[svc].pid}]

\* Faulty variant: _kill letting ProcessLookupError out, before the fields
\* are cleared.
_kill_raise(w, svc) ==
    IF w.objs[svc].pid # None /\ \A q \in w.alive : q[1] # w.objs[svc].pid
    THEN w
    ELSE [objs |-> [w.objs EXCEPT ![svc].status = "stopped",
                                  ![svc].pid = None,
                                  ![svc].started_at = None],
          alive |-> {q \in w.alive : q[1] # w.objs[svc].pid}]

\* What os.kill does in _kill: not called without a pid ("none"), the signal
\* is sent ("sent"), or ProcessLookupError is raised and logged ("gone").
KillOutcome(w, svc) ==
    IF w.objs[svc].pid = None THEN "none"
    ELSE IF \E q \in w.alive : q[1] = w.objs[svc].pid THEN "sent"
    ELSE "gone"

\* _kill: SIGTERM to the recorded pid (a missing process is logged), then
\* status, pid and started_at are cleared.
_kill(w, svc) ==
    [objs |-> [w.objs EXCEPT ![svc].status = "stopped",
                             ![svc].pid = None,
                             ![svc].started_at = None],
     alive |-> {q \in w.alive : q[1] # w.objs[svc].pid}]

\* Outcomes of a launch and of a health request.
Launches == {"ok", "fail"}
\* A health request ends with a response below 400 ("ok") or from 400 on
\* ("error"), or raises: ConnectionError ("refused"), ConnectTimeout, which
\* is a ConnectionError and a Timeout ("connect_timeout"), ReadTimeout
\* ("timeout"), or anything else ("exception").
Responses == {"ok", "error", "refused", "connect_timeout", "timeout", "exception"}

\* The except clause that takes the outcome: the first one that matches.
Clause(resp) ==
    CASE resp \in {"ok", "error"} -> resp
      [] resp \in {"refused", "connect_timeout"} -> "ConnectionError"
      [] resp = "timeout" -> "Timeout"
      [] OTHER -> "Exception"

\* Faulty variant: an error status also takes the service for stopped.
PingApplyStrict(s, resp) ==
    IF Clause(resp) = "ok"
    THEN [s EXCEPT !.health = "healthy", !.status = "running",
                   !.last_health_check = 1]
    ELSE [s EXCEPT !.health = "unreachable", !.status = "stopped",
                   !.last_health_check = 1]

\* _ping, after the request: the service dict as the response leaves it.
PingApply(s, resp) ==
    CASE Clause(resp) = "ok" ->
           [s EXCEPT !.health = "healthy", !.status = "running",
                     !.last_health_check = 1]
      [] Clause(resp) = "error" ->
           [s EXCEPT !.health = "degraded", !.status = "running",
                     !.last_health_check = 1]
      [] Clause(resp) = "Timeout" ->
           [s EXCEPT !.health = "degraded", !.last_health_check = 1]
      [] OTHER ->
           [s EXCEPT !.health = "unreachable", !.status = "stopped",
                     !.last_health_check = 1]

\* _ping's return value, field "status".
PingResult(resp) ==
    CASE Clause(resp) = "ok" -> "healthy"
      [] Clause(resp) = "error" -> "degraded"
      [] Clause(resp) = "Timeout" -> "degraded"
      [] OTHER -> "unreachable"

\* _ping's return value, field "latency_ms": the measured time, None, or
\* the fixed 3000 of the Timeout clause.
PingLatency(resp) ==
    CASE Clause(resp) \in {"ok", "error"} -> "measured"
      [] Clause(resp) = "Timeout" -> "3000"
      [] OTHER -> "None"

\* _ping's return value, the key of field "details".
PingDetails(resp) ==
    CASE Clause(resp) \in {"ok", "error"} -> "status_code"
      [] Clause(resp) = "Timeout" -> "timeout"
      [] Clause(resp) = "ConnectionError" -> "none"
      [] OTHER -> "error"

(***************************************************************************)
(* Call frames.                                                            *)
(***************************************************************************)
IdleFrame ==
    [op |-> "none", id |-> "", svc |-> None, pc |-> "done", idx |-> 0,
     dep_chain |-> <<>>, pre |-> {}, launches |-> <<>>,
     tmp |-> 0, result |-> "none", attempt |-> 0, src |-> "", view |-> <<>>,
     limit |-> 0, inc |-> <<>>, note |-> "", resp |-> "none",
     latency_ms |-> "None", details |-> "none"]

\* History of a call: one entry per _spawn it made: the service, how the
\* launch ended, and the status the service had before.
Launched(f, w, id, svc, launch) ==
    Append(f.launches, <<id, LaunchResult(w, svc, launch), w.objs[svc].status>>)

Frame(op, id, svc, pc) ==
    [IdleFrame EXCEPT !.op = op, !.id = id, !.svc = svc, !.pc = pc]

Returned(op, id, svc, result) ==
    [IdleFrame EXCEPT !.op = op, !.id = id, !.svc = svc, !.result = result]

\* Faulty variant: start_service without its test of the status.
StartGuardOpen(svc) ==
    IF svc = None THEN "notfound"
    ELSE IF objs[svc].ghost THEN "ghost"
    ELSE "proceed"

\* The guards of start_service, stop_service and restart_service, evaluated
\* under the lock: the early return's outcome, or "proceed".
StartGuard(svc) ==
    IF svc = None THEN "notfound"
    ELSE IF objs[svc].ghost THEN "ghost"
    ELSE IF objs[svc].status = "running" THEN "conflict"
    ELSE "proceed"

StopGuard(svc) ==
    IF svc = None THEN "notfound"
    ELSE IF objs[svc].ghost THEN "ghost"
    ELSE IF objs[svc].status = "stopped" THEN "conflict"
    ELSE "proceed"

\* Faulty variant: restart_service without the ghost test.
RestartGuardOpen(svc) ==
    IF svc = None THEN "notfound"
    ELSE "proceed"

RestartGuard(svc) ==
    IF svc = None THEN "notfound"
    ELSE IF objs[svc].ghost THEN "ghost"
    ELSE "proceed"

\* Faulty variant: start_service spawning every known dependency, running or not.
DepNeedsSpawnAny(o, dep) == dep # None

\* start_service's test of one dependency: known and not running.
DepNeedsSpawn(o, dep) == dep # None /\ o[dep].status # "running"

\* The declared dependencies of svc that are registered and not running
\* (history: what a start_service call found when it began).
NotRunningDeps(svc) ==
    {d \in {objs[svc].dependencies[i] : i \in DOMAIN objs[svc].dependencies} :
        d \in DOMAIN reg /\ objs[reg[d]].status # "running"}

(***************************************************************************)
(* start_service                                                           *)
(***************************************************************************)
\* The locked block: the guards, then status := starting.
BeginStart(t, id) ==
    LET svc == Lookup(id)
        out == StartGuard(svc)
    IN  /\ IF out = "proceed"
           THEN /\ objs' = [objs EXCEPT ![svc].status = "starting"]
                /\ call' = [call EXCEPT ![t] =
                       [Frame("start_service", id, svc, "deps") EXCEPT
                           !.idx = 1, !.pre = NotRunningDeps(svc)]]
           ELSE /\ objs' = objs
                /\ call' = [call EXCEPT ![t] =
                       Returned("start_service", id, svc, out)]
        /\ UNCHANGED <<reg, alive>>

\* Faulty variant: the loop resolving one level further, spawning the first
\* dependency of a dependency before the dependency.
StartDepDeep(t) ==
    LET f == call[t]
        deps == objs[f.svc].dependencies
    IN  /\ f.op = "start_service" /\ f.pc = "deps" /\ f.idx <= Len(deps)
        /\ LET dep_id == deps[f.idx]
               dep == Lookup(dep_id)
           IN  IF DepNeedsSpawn(objs, dep)
               THEN \E launch \in Launches :
                       LET w0 == [objs |-> objs, alive |-> alive]
                           below == IF objs[dep].dependencies = <<>> THEN None
                                    ELSE Lookup(objs[dep].dependencies[1])
                           w1 == IF DepNeedsSpawn(objs, below)
                                 THEN _spawn(w0, below, launch) ELSE w0
                           w == _spawn(w1, dep, launch)
                       IN  /\ objs' = w.objs
                           /\ alive' = w.alive
                           /\ call' = [call EXCEPT
                                  ![t].idx = f.idx + 1,
                                  ![t].dep_chain = Append(f.dep_chain, dep_id),
                                  ![t].launches = Launched(f, w0, dep_id, dep, launch)]
               ELSE /\ call' = [call EXCEPT ![t].idx = f.idx + 1]
                    /\ UNCHANGED <<objs, alive>>
        /\ UNCHANGED reg

\* One turn of the dependency loop: spawn the dependency if it is known and
\* not running.
StartDep(t) ==
    LET f == call[t]
        deps == objs[f.svc].dependencies
    IN  /\ f.op = "start_service" /\ f.pc = "deps" /\ f.idx <= Len(deps)
        /\ LET dep_id == deps[f.idx]
               dep == Lookup(dep_id)
           IN  IF DepNeedsSpawn(objs, dep)
               THEN \E launch \in Launches :
                       LET w0 == [objs |-> objs, alive |-> alive]
                           w == _spawn(w0, dep, launch)
                       IN  /\ objs' = w.objs
                           /\ alive' = w.alive
                           /\ call' = [call EXCEPT
                                  ![t].idx = f.idx + 1,
                                  ![t].dep_chain = Append(f.dep_chain, dep_id),
                                  ![t].launches = Launched(f, w0, dep_id, dep, launch)]
               ELSE /\ call' = [call EXCEPT ![t].idx = f.idx + 1]
                    /\ UNCHANGED <<objs, alive>>
        /\ UNCHANGED reg

\* After the loop: spawn the service itself and return.
StartSelf(t) ==
    LET f == call[t]
    IN  /\ f.op = "start_service" /\ f.pc = "deps"
        /\ f.idx > Len(objs[f.svc].dependencies)
        /\ \E launch \in Launches :
              LET w0 == [objs |-> objs, alive |-> alive]
                  w == _spawn(w0, f.svc, launch)
              IN  /\ objs' = w.objs
                  /\ alive' = w.alive
                  /\ call' = [call EXCEPT
                         ![t].pc = "done",
                         ![t].launches = Launched(f, w0, f.id, f.svc, launch),
                         ![t].result = "starting"]
        /\ UNCHANGED reg

(***************************************************************************)
(* stop_service                                                            *)
(***************************************************************************)
BeginStop(t, id) ==
    LET svc == Lookup(id)
        out == StopGuard(svc)
    IN  /\ call' = [call EXCEPT ![t] =
               IF out = "proceed" THEN Frame("stop_service", id, svc, "kill")
               ELSE Returned("stop_service", id, svc, out)]
        /\ UNCHANGED <<objs, reg, alive>>

StopKill(t) ==
    LET f == call[t]
        w == _kill([objs |-> objs, alive |-> alive], f.svc)
    IN  /\ f.op = "stop_service" /\ f.pc = "kill"
        /\ objs' = w.objs
        /\ alive' = w.alive
        /\ call' = [call EXCEPT
               ![t].pc = "done", ![t].result = "stopped",
               ![t].details = KillOutcome([objs |-> objs, alive |-> alive], f.svc)]
        /\ UNCHANGED reg

(***************************************************************************)
(* restart_service                                                         *)
(***************************************************************************)
BeginRestart(t, id) ==
    LET svc == Lookup(id)
        out == RestartGuard(svc)
    IN  /\ call' = [call EXCEPT ![t] =
               IF out = "proceed" THEN Frame("restart_service", id, svc, "kill")
               ELSE Returned("restart_service", id, svc, out)]
        /\ UNCHANGED <<objs, reg, alive>>

\* _kill(svc), then time.sleep(1).
RestartKill(t) ==
    LET f == call[t]
        w == _kill([objs |-> objs, alive |-> alive], f.svc)
    IN  /\ f.op = "restart_service" /\ f.pc = "kill"
        /\ objs' = w.objs
        /\ alive' = w.alive
        /\ call' = [call EXCEPT ![t].pc = "spawn"]
        /\ UNCHANGED reg

\* _spawn(svc), then the read of restart_count.
RestartSpawn(t) ==
    LET f == call[t]
    IN  /\ f.op = "restart_service" /\ f.pc = "spawn"
        /\ \E launch \in Launches :
              LET w0 == [objs |-> objs, alive |-> alive]
                  w == _spawn(w0, f.svc, launch)
              IN  /\ objs' = w.objs
                  /\ alive' = w.alive
                  /\ call' = [call EXCEPT
                         ![t].pc = "incr",
                         ![t].launches = Launched(f, w0, f.id, f.svc, launch),
                         ![t].tmp = w.objs[f.svc].restart_count]
        /\ UNCHANGED reg

\* The store of restart_count: the value read, plus one.
RestartIncr(t) ==
    LET f == call[t]
    IN  /\ f.op = "restart_service" /\ f.pc = "incr"
        /\ objs' = [objs EXCEPT ![f.svc].restart_count = f.tmp + 1]
        /\ call' = [call EXCEPT ![t].pc = "ret"]
        /\ UNCHANGED <<reg, alive>>

\* The return: restart_count is read again and returned as attempt.
RestartReturn(t) ==
    LET f == call[t]
    IN  /\ f.op = "restart_service" /\ f.pc = "ret"
        /\ call' = [call EXCEPT ![t].pc = "done", ![t].result = "restarting",
                                ![t].attempt = objs[f.svc].restart_count]
        /\ UNCHANGED <<objs, reg, alive>>

(***************************************************************************)
(* check_health and _ping                                                  *)
(***************************************************************************)
\* _ping up to requests.get: the request is in flight.
PingSend(t, op, id, svc) ==
    /\ call' = [call EXCEPT ![t] = Frame(op, id, svc, "ping")]
    /\ UNCHANGED <<objs, reg, alive>>

\* check_health: the lookup (no lock, no ghost test), then _ping.
BeginCheckHealth(t, id) ==
    LET svc == Lookup(id)
    IN  IF svc = None
        THEN /\ call' = [call EXCEPT ![t] =
                    Returned("check_health", id, svc, "notfound")]
             /\ UNCHANGED <<objs, reg, alive>>
        ELSE PingSend(t, "check_health", id, svc)

\* _ping from the response on: the service dict is updated in place.
PingDone(t) ==
    LET f == call[t]
    IN  /\ f.pc = "ping"
        /\ \E resp \in Responses :
              /\ objs' = [objs EXCEPT ![f.svc] = PingApply(@, resp)]
              /\ call' = [call EXCEPT ![t].pc = "done",
                                      ![t].result = PingResult(resp),
                                      ![t].latency_ms = PingLatency(resp),
                                      ![t].details = PingDetails(resp),
                                      ![t].resp = resp]
        /\ UNCHANGED <<reg, alive>>

(***************************************************************************)
(* _load_registry and reload_registry                                      *)
(***************************************************************************)
NoId == ""         \* an entry of the source without the key id

\* The definition source after an edit: a has other dependencies, another
\* group and no command; b is gone from the file.
Edited ==
    << [id |-> "a", group |-> "lab", ghost |-> FALSE,
        dependencies |-> <<"b">>, start_command |-> FALSE],
       [id |-> "g", group |-> "lab", ghost |-> TRUE,
        dependencies |-> <<>>, start_command |-> TRUE] >>

\* The same with an entry that lacks its id between two complete ones.
EditedNoId ==
    << Edited[1],
       [id |-> NoId, group |-> "core", ghost |-> FALSE,
        dependencies |-> <<>>, start_command |-> TRUE],
       Edited[2] >>

\* What open and yaml.safe_load make of the definition source: the file is
\* missing (FileNotFoundError), unparseable (YAMLError), empty (None), or a
\* mapping with its list of services.
Source(name) ==
    CASE name = "missing" -> [kind |-> "missing", services |-> <<>>]
      [] name = "malformed" -> [kind |-> "malformed", services |-> <<>>]
      [] name = "empty" -> [kind |-> "empty", services |-> <<>>]
      [] name = "noid" -> [kind |-> "mapping", services |-> EditedNoId]
      [] name = "edited" -> [kind |-> "mapping", services |-> Edited]
      [] OTHER -> [kind |-> "mapping", services |-> Definition]

Sources == {"registry", "edited", "noid", "missing", "malformed", "empty"}

\* Faulty variant: the fresh dict starts from the defaults.
MergeEntryFresh(w, svc) == LoadEntry(svc)

\* One turn of the loop over the entries: the fresh dict takes the runtime
\* fields of the existing dict of its id, or the defaults.
MergeEntry(w, svc) ==
    IF svc.id \in DOMAIN w.reg
    THEN LET existing == w.objs[w.reg[svc.id]]
         IN  [LoadEntry(svc) EXCEPT
                 !.status = existing.status,
                 !.health = existing.health,
                 !.pid = existing.pid,
                 !.started_at = existing.started_at,
                 !.last_health_check = existing.last_health_check,
                 !.restart_count = existing.restart_count]
    ELSE LoadEntry(svc)

\* self._services[svc_id] = svc: the fresh dict replaces the existing one.
StoreEntry(w, svc) ==
    [objs |-> Append(w.objs, MergeEntry(w, svc)),
     reg |-> [id \in DOMAIN w.reg \cup {svc.id} |->
                 IF id = svc.id THEN Len(w.objs) + 1 ELSE w.reg[id]]]

\* The loop from entry k on; svc["id"] raises KeyError on an entry without
\* id, which ends the loop with the earlier entries stored.
RECURSIVE LoadEntries(_, _, _)
LoadEntries(w, services, k) ==
    IF k > Len(services)
    THEN [objs |-> w.objs, reg |-> w.reg, raised |-> FALSE]
    ELSE IF services[k].id = NoId
    THEN [objs |-> w.objs, reg |-> w.reg, raised |-> TRUE]
    ELSE LoadEntries(StoreEntry(w, services[k]), services, k + 1)

\* _load_registry: FileNotFoundError and YAMLError are caught and logged;
\* data.get on None raises AttributeError, which is not caught.
_load_registry(w, source) ==
    CASE source.kind \in {"missing", "malformed"} ->
           [objs |-> w.objs, reg |-> w.reg, raised |-> FALSE]
      [] source.kind = "empty" ->
           [objs |-> w.objs, reg |-> w.reg, raised |-> TRUE]
      [] OTHER -> LoadEntries(w, source.services, 1)

\* reload_registry: _load_registry under the lock.
BeginReload(t, name) ==
    LET r == _load_registry([objs |-> objs, reg |-> reg], Source(name))
    IN  /\ objs' = r.objs
        /\ reg' = r.reg
        /\ call' = [call EXCEPT ![t] =
               [Returned("reload_registry", "", None,
                         IF r.raised THEN "raised" ELSE "reloaded")
                   EXCEPT !.src = name]]
        /\ UNCHANGED alive

(***************************************************************************)
(* The API: a request thread calls one operation at a time.                *)
(***************************************************************************)
Remember(t) ==
    prev' = [prev EXCEPT ![t] =
        [op |-> call[t].op, id |-> call[t].id, result |-> call[t].result]]

ApiReady(t) == t \in Callers /\ call[t].pc = "done" /\ nCalls < MaxCalls

ApiStart(t, id) ==
    /\ ApiReady(t) /\ BeginStart(t, id) /\ Remember(t)
    /\ nCalls' = nCalls + 1 /\ UNCHANGED <<loopVars, healVars, logVars>>

ApiStop(t, id) ==
    /\ ApiReady(t) /\ BeginStop(t, id) /\ Remember(t)
    /\ nCalls' = nCalls + 1 /\ UNCHANGED <<loopVars, healVars, logVars>>

ApiRestart(t, id) ==
    /\ ApiReady(t) /\ BeginRestart(t, id) /\ Remember(t)
    /\ nCalls' = nCalls + 1 /\ UNCHANGED <<loopVars, healVars, logVars>>

ApiCheckHealth(t, id) ==
    /\ ApiReady(t) /\ BeginCheckHealth(t, id) /\ Remember(t)
    /\ nCalls' = nCalls + 1 /\ UNCHANGED <<loopVars, healVars, logVars>>

\* _public_view: a new dict with the scalar values of svc; its dependencies
\* value is the list object of svc itself, named here by the dict owning it.
_public_view(svc) ==
    [id |-> objs[svc].id, group |-> objs[svc].group,
     status |-> objs[svc].status, health |-> objs[svc].health,
     last_health_check |-> objs[svc].last_health_check,
     restart_count |-> objs[svc].restart_count, ghost |-> objs[svc].ghost,
     dependencies |-> svc]

\* self._services.values(), in insertion order.
Values == [i \in 1..Len(Definition) |-> reg[Definition[i].id]]

InGroup(group, svc) == objs[svc].group = group

Groups == {"core", "lab", "none"}

\* Elements a caller adds to a list it was handed.
Additions == {"x", "g"}

BeginGet(t, id) ==
    LET svc == Lookup(id)
    IN  /\ call' = [call EXCEPT ![t] =
               IF svc = None
               THEN Returned("get", id, None, "none")
               ELSE [Returned("get", id, svc, "view")
                        EXCEPT !.view = <<_public_view(svc)>>]]
        /\ UNCHANGED <<objs, reg, alive>>

BeginGetAll(t) ==
    /\ call' = [call EXCEPT ![t] =
           [Returned("get_all", "", None, "view")
               EXCEPT !.view = [i \in DOMAIN Values |-> _public_view(Values[i])]]]
    /\ UNCHANGED <<objs, reg, alive>>

BeginGetByGroup(t, group) ==
    LET InG(svc) == InGroup(group, svc)
        found == SelectSeq(Values, InG)
    IN  /\ call' = [call EXCEPT ![t] =
               [Returned("get_by_group", "", None, "view")
                   EXCEPT !.view = [i \in DOMAIN found |-> _public_view(found[i])]]]
        /\ UNCHANGED <<objs, reg, alive>>

\* The caller assigns to a key of a dict it was handed.
ViewAssign(t, k) ==
    /\ t \in Callers /\ call[t].pc = "done" /\ k \in DOMAIN call[t].view
    /\ call[t].view[k].status # "edited"
    /\ call' = [call EXCEPT ![t].view[k].status = "edited"]
    /\ UNCHANGED <<objs, reg, alive, prev, nCalls, loopVars, healVars, logVars>>

\* The caller appends to the dependencies list of a dict it was handed: the
\* list is the one the registry's dict holds.
ViewAppend(t, k, d) ==
    /\ t \in Callers /\ call[t].pc = "done" /\ k \in DOMAIN call[t].view
    /\ LET list == call[t].view[k].dependencies
       IN  /\ \A i \in DOMAIN objs[list].dependencies :
                  objs[list].dependencies[i] # d
           /\ objs' = [objs EXCEPT ![list].dependencies = Append(@, d)]
    /\ UNCHANGED <<reg, alive, call, prev, nCalls, loopVars, healVars, logVars>>

ApiGet(t, id) ==
    /\ ApiReady(t) /\ BeginGet(t, id) /\ Remember(t)
    /\ nCalls' = nCalls + 1 /\ UNCHANGED <<loopVars, healVars, logVars>>

ApiGetAll(t) ==
    /\ ApiReady(t) /\ BeginGetAll(t) /\ Remember(t)
    /\ nCalls' = nCalls + 1 /\ UNCHANGED <<loopVars, healVars, logVars>>

ApiGetByGroup(t, group) ==
    /\ ApiReady(t) /\ BeginGetByGroup(t, group) /\ Remember(t)
    /\ nCalls' = nCalls + 1 /\ UNCHANGED <<loopVars, healVars, logVars>>

ApiReload(t, name) ==
    /\ ApiReady(t) /\ BeginReload(t, name) /\ Remember(t)
    /\ nCalls' = nCalls + 1 /\ UNCHANGED <<loopVars, healVars, logVars>>

(***************************************************************************)
(* start_group and stop_group                                              *)
(***************************************************************************)
\* The next dict from position idx of self._services.values() on that passes
\* the test of the loop (in the group, not a ghost), or 0.
NextMember(group, idx) ==
    LET S == {i \in idx..Len(Values) :
                  InGroup(group, Values[i]) /\ ~objs[Values[i]].ghost}
    IN  IF S = {} THEN 0 ELSE Min(S)

\* Faulty variant: start_group without its test of the status.
NeedsStartAlways(svc) == TRUE

\* start_group: svc.get("status") != "running".
NeedsStart(svc) == objs[svc].status # "running"

\* stop_group: svc.get("status") != "stopped".
NeedsStop(svc) == objs[svc].status # "stopped"

\* start_group and stop_group up to the loop: results = {}.
BeginGroup(t, op, group) ==
    /\ call' = [call EXCEPT ![t] = [Frame(op, group, None, "group") EXCEPT !.idx = 1]]
    /\ UNCHANGED <<objs, reg, alive>>

\* One turn of start_group's loop on the next member: _spawn it unless it
\* is running, and enter its outcome in results.
StartMember(t) ==
    LET f == call[t]
        i == NextMember(f.id, f.idx)
        svc == Values[i]
    IN  /\ f.op = "start_group" /\ f.pc = "group" /\ i # 0
        /\ IF NeedsStart(svc)
           THEN \E launch \in Launches :
                   LET w0 == [objs |-> objs, alive |-> alive]
                       w == _spawn(w0, svc, launch)
                   IN  /\ objs' = w.objs
                       /\ alive' = w.alive
                       /\ call' = [call EXCEPT
                              ![t].idx = i + 1,
                              ![t].launches = Launched(f, w0, objs[svc].id, svc, launch),
                              ![t].view = Append(f.view, <<objs[svc].id, "starting">>)]
           ELSE /\ call' = [call EXCEPT
                       ![t].idx = i + 1,
                       ![t].view = Append(f.view, <<objs[svc].id, "already_running">>)]
                /\ UNCHANGED <<objs, alive>>
        /\ UNCHANGED reg

\* One turn of stop_group's loop on the next member: _kill it unless it is
\* stopped, and enter its outcome in results.
StopMember(t) ==
    LET f == call[t]
        i == NextMember(f.id, f.idx)
        svc == Values[i]
    IN  /\ f.op = "stop_group" /\ f.pc = "group" /\ i # 0
        /\ IF NeedsStop(svc)
           THEN LET w == _kill([objs |-> objs, alive |-> alive], svc)
                IN  /\ objs' = w.objs
                    /\ alive' = w.alive
                    /\ call' = [call EXCEPT
                           ![t].idx = i + 1,
                           ![t].launches = Append(f.launches,
                               <<objs[svc].id, "kill", objs[svc].status>>),
                           ![t].view = Append(f.view, <<objs[svc].id, "stopped">>)]
           ELSE /\ call' = [call EXCEPT
                       ![t].idx = i + 1,
                       ![t].view = Append(f.view, <<objs[svc].id, "already_stopped">>)]
                /\ UNCHANGED <<objs, alive>>
        /\ UNCHANGED reg

\* return results; the route answers 404 when results is empty.
GroupReturn(t) ==
    LET f == call[t]
    IN  /\ f.op \in {"start_group", "stop_group"} /\ f.pc = "group"
        /\ NextMember(f.id, f.idx) = 0
        /\ call' = [call EXCEPT
               ![t].pc = "done",
               ![t].result = IF f.view = <<>> THEN "notfound" ELSE "results"]
        /\ UNCHANGED <<objs, reg, alive>>

ApiGroup(t, op, group) ==
    /\ ApiReady(t) /\ BeginGroup(t, op, group) /\ Remember(t)
    /\ nCalls' = nCalls + 1 /\ UNCHANGED <<loopVars, healVars, logVars>>

\* A step inside a ServiceManager call of thread t.
MgrFrame == UNCHANGED <<apiVars, loopVars, healVars, logVars>>

\* The response to the request of thread t's _ping arrives.
PingStep(t) == PingDone(t) /\ MgrFrame

MgrStep(t) ==
    \/ StartDep(t) /\ MgrFrame
    \/ StartSelf(t) /\ MgrFrame
    \/ StopKill(t) /\ MgrFrame
    \/ RestartKill(t) /\ MgrFrame
    \/ RestartSpawn(t) /\ MgrFrame
    \/ RestartIncr(t) /\ MgrFrame
    \/ RestartReturn(t) /\ MgrFrame
    \/ PingStep(t)

\* A step inside a start_group or stop_group call of thread t.
GroupStep(t) ==
    \/ StartMember(t) /\ MgrFrame
    \/ StopMember(t) /\ MgrFrame
    \/ GroupReturn(t) /\ MgrFrame

(***************************************************************************)
(* _health_loop                                                            *)
(***************************************************************************)
\* Top of the while loop: list(self._services.values()).
HealthCycle ==
    /\ hl.pc = "sleep" /\ nCycles < MaxCycles
    /\ hl.thread = "alive" /\ hl.running
    /\ hl' = [hl EXCEPT !.pc = "scan", !.idx = 1,
              !.snap = [i \in 1..Len(Definition) |-> reg[Definition[i].id]]]
    /\ nCycles' = nCycles + 1
    /\ UNCHANGED <<mgrVars, apiVars, healVars, logVars>>

\* Index of the next non-ghost entry of the snapshot at or after i (0: none).
NextLive(snap, i) ==
    LET S == {j \in i..Len(snap) : ~objs[snap[j]].ghost}
    IN  IF S = {} THEN 0 ELSE Min(S)

\* The for loop: ghosts are skipped, the next service is pinged.
HealthProbe ==
    LET j == NextLive(hl.snap, hl.idx)
    IN  /\ hl.pc = "scan" /\ call[HealthThread].pc = "done" /\ j # 0
        /\ PingSend(HealthThread, "health_loop", objs[hl.snap[j]].id, hl.snap[j])
        /\ hl' = [hl EXCEPT !.idx = j + 1]
        /\ UNCHANGED <<apiVars, nCycles, healVars, logVars>>

\* End of the for loop: time.sleep(config.HEALTH_INTERVAL).
HealthSleep ==
    /\ hl.pc = "scan" /\ call[HealthThread].pc = "done"
    /\ NextLive(hl.snap, hl.idx) = 0
    /\ hl' = [hl EXCEPT !.pc = "sleep", !.idx = 0, !.snap = <<>>]
    /\ UNCHANGED <<mgrVars, apiVars, nCycles, healVars, logVars>>

\* The while test fails after stop_health_loop: the thread ends.
HealthExit ==
    /\ hl.pc = "sleep" /\ hl.thread = "alive" /\ ~hl.running
    /\ hl' = [hl EXCEPT !.thread = "none"]
    /\ UNCHANGED <<mgrVars, apiVars, nCycles, healVars, logVars>>

\* start_health_loop: nothing when the thread is alive; otherwise _running
\* is set and a new thread is started.
StartHealthLoop ==
    /\ hl' = IF hl.thread = "alive"
             THEN [hl EXCEPT !.last = "start"]
             ELSE [hl EXCEPT !.running = TRUE, !.thread = "alive",
                             !.pc = "sleep", !.last = "start"]
    /\ UNCHANGED <<mgrVars, apiVars, nCycles, healVars, logVars>>

\* stop_health_loop: _running = False.
StopHealthLoop ==
    /\ hl' = [hl EXCEPT !.running = FALSE, !.last = "stop"]
    /\ UNCHANGED <<mgrVars, apiVars, nCycles, healVars, logVars>>

(***************************************************************************)
(* incident_logger                                                         *)
(***************************************************************************)
IdWidth == 4       \* f"INC-{_counter:04d}"

RECURSIVE Digits(_)
Digits(n) == IF n < 10 THEN <<n>> ELSE Digits(n \div 10) \o <<n % 10>>

\* The digits after "INC-": the number, zero-padded to IdWidth.
FormatId(n) ==
    LET d == Digits(n)
    IN  IF Len(d) >= IdWidth THEN d
        ELSE [i \in 1..(IdWidth - Len(d)) |-> 0] \o d

\* The incident dict log_event builds, after _next_id and datetime.now.
Incident(app_id, event, cause, details, outcome) ==
    [id |-> FormatId(counter + 1), timestamp |-> now + 1, app_id |-> app_id,
     event |-> event, cause |-> cause, details |-> details,
     outcome |-> outcome, annotation |-> "None"]

\* Faulty variant: the id is taken only when the row is stored.
LogEventStored(app_id, event, cause, details, outcome) ==
    LET incident == Incident(app_id, event, cause, details, outcome)
        stored == storage = "up" /\ \A i \in DOMAIN db : db[i].id # incident.id
    IN  /\ counter' = IF stored THEN counter + 1 ELSE counter
        /\ now' = now + 1
        /\ db' = IF stored THEN Append(db, incident) ELSE db
        /\ issued' = IF counter + 1 > issued THEN counter + 1 ELSE issued
        /\ UNCHANGED storage

\* log_event: the id is taken, the record stamped, and the row inserted;
\* the INSERT raises (caught and logged) when the database cannot be
\* written or the primary key exists.
LogEvent(app_id, event, cause, details, outcome) ==
    LET incident == Incident(app_id, event, cause, details, outcome)
    IN  /\ counter' = counter + 1
        /\ now' = now + 1
        /\ db' = IF storage = "up" /\ \A i \in DOMAIN db : db[i].id # incident.id
                 THEN Append(db, incident)
                 ELSE db
        /\ issued' = IF counter + 1 > issued THEN counter + 1 ELSE issued
        /\ UNCHANGED storage

\* log_event by concurrent callers, step by step.  _next_id: the counter is
\* raised and formatted under _counter_lock.
LogNextId(t, app_id) ==
    /\ ApiReady(t)
    /\ counter' = counter + 1
    /\ issued' = IF counter + 1 > issued THEN counter + 1 ELSE issued
    /\ call' = [call EXCEPT ![t] =
           [Frame("log_event", app_id, None, "stamp") EXCEPT
               !.inc = FormatId(counter + 1)]]
    /\ nCalls' = nCalls + 1
    /\ UNCHANGED <<db, now, storage, prev, objs, reg, alive, loopVars, healVars>>

\* datetime.now(AEST) and the incident dict.
LogStamp(t) ==
    LET f == call[t]
    IN  /\ f.op = "log_event" /\ f.pc = "stamp"
        /\ now' = now + 1
        /\ call' = [call EXCEPT
               ![t].pc = "insert",
               ![t].view = <<[Incident(f.id, "crash", "None", "None", "None")
                                 EXCEPT !.id = f.inc]>>]
        /\ UNCHANGED <<db, counter, storage, issued>>
        /\ UNCHANGED <<objs, reg, alive, apiVars, loopVars, healVars>>

\* Faulty variant: the INSERT without _lock: with another INSERT pending the
\* database is locked, the exception is logged and the row is lost.
LogInsertNoLock(t) ==
    LET f == call[t]
        busy == \E u \in Callers \ {t} :
                    call[u].op = "log_event" /\ call[u].pc = "insert"
    IN  /\ f.op = "log_event" /\ f.pc = "insert"
        /\ db' = IF storage = "up" /\ ~busy
                    /\ \A i \in DOMAIN db : db[i].id # f.inc
                 THEN Append(db, f.view[1])
                 ELSE db
        /\ call' = [call EXCEPT ![t].pc = "done", ![t].result = "logged"]
        /\ UNCHANGED <<counter, now, storage, issued>>
        /\ UNCHANGED <<objs, reg, alive, apiVars, loopVars, healVars>>

\* The INSERT under _lock, and the return of the incident; a failing INSERT
\* is logged.
LogInsert(t) ==
    LET f == call[t]
    IN  /\ f.op = "log_event" /\ f.pc = "insert"
        /\ db' = IF storage = "up" /\ \A i \in DOMAIN db : db[i].id # f.inc
                 THEN Append(db, f.view[1])
                 ELSE db
        /\ call' = [call EXCEPT ![t].pc = "done", ![t].result = "logged"]
        /\ UNCHANGED <<counter, now, storage, issued>>
        /\ UNCHANGED <<objs, reg, alive, apiVars, loopVars, healVars>>

\* int(row["id"].split("-")[1]): the number the digits spell.
RECURSIVE ParseId(_)
ParseId(d) ==
    IF d = <<>> THEN 0 ELSE 10 * ParseId(SubSeq(d, 1, Len(d) - 1)) + d[Len(d)]

\* SQLite's order of two TEXT values with the same prefix "INC-": character
\* by character, a proper prefix first.
RECURSIVE TextLess(_, _)
TextLess(x, y) ==
    IF x = <<>> THEN y # <<>>
    ELSE IF y = <<>> THEN FALSE
    ELSE IF x[1] # y[1] THEN x[1] < y[1]
    ELSE TextLess(Tail(x), Tail(y))

\* SELECT id FROM incidents ORDER BY id DESC LIMIT 1, on a table with rows.
TextMaxId(rows) ==
    LET ids == {rows[i].id : i \in DOMAIN rows}
    IN  CHOOSE m \in ids : \A x \in ids : ~TextLess(m, x)

\* _init_counter: the number of the greatest stored id; the counter stays 0
\* on an empty table and when the database cannot be opened.
_init_counter(rows) ==
    IF storage = "up" /\ rows # <<>> THEN ParseId(TextMaxId(rows)) ELSE 0

\* The process ends and a new one imports incident_logger: no call is in
\* progress, the counter is read back from the table.
ProcessRestart ==
    /\ counter' = _init_counter(db)
    /\ call' = [t \in Threads |-> IdleFrame]
    /\ UNCHANGED <<db, now, storage, issued>>
    /\ UNCHANGED <<objs, reg, alive, apiVars, loopVars, healVars>>

AppIds == {"a", "b"}           \* app_id values of stored incidents
NoFilter == "None"             \* app_id=None
AppArgs == AppIds \cup {NoFilter, ""}

\* Faulty variant: every row is returned.
LimitAll(rows, k) == rows

\* LIMIT k: the first k rows; a negative k is no limit.
Limit(rows, k) ==
    IF k < 0 \/ k >= Len(rows) THEN rows ELSE SubSeq(rows, 1, k)

\* ORDER BY timestamp DESC: the row with the greatest timestamp first, among
\* equal timestamps the first stored.
RECURSIVE OrderByTimestampDesc(_)
OrderByTimestampDesc(rows) ==
    IF rows = <<>> THEN <<>>
    ELSE LET j == CHOOSE i \in DOMAIN rows :
                      /\ \A n \in DOMAIN rows : rows[n].timestamp <= rows[i].timestamp
                      /\ \A n \in 1..(i - 1) : rows[n].timestamp < rows[i].timestamp
             rest == [n \in 1..(Len(rows) - 1) |->
                         IF n < j THEN rows[n] ELSE rows[n + 1]]
         IN  <<rows[j]>> \o OrderByTimestampDesc(rest)

\* if app_id: WHERE app_id = ?; None and "" take the query without WHERE.
Where(rows, app_id) ==
    IF app_id \in {NoFilter, ""} THEN rows
    ELSE LET Match(r) == r.app_id = app_id IN SelectSeq(rows, Match)

\* get_incidents: the rows as dicts; [] when the database cannot be read.
get_incidents(limit, app_id) ==
    IF storage = "up"
    THEN Limit(OrderByTimestampDesc(Where(db, app_id)), limit)
    ELSE <<>>

Notes == {"n1", "n2"}

\* annotate: UPDATE incidents SET annotation = ? WHERE id = ?; the rows
\* after it and cursor.rowcount > 0 (False when the database cannot be
\* written).
\* Faulty variant: the UPDATE without its WHERE clause.
AnnotatedAll(rows, incident_id, note) ==
    [i \in DOMAIN rows |-> [rows[i] EXCEPT !.annotation = note]]

Annotated(rows, incident_id, note) ==
    [i \in DOMAIN rows |->
        IF rows[i].id = incident_id
        THEN [rows[i] EXCEPT !.annotation = note] ELSE rows[i]]

Found(rows, incident_id) ==
    storage = "up" /\ \E i \in DOMAIN rows : rows[i].id = incident_id

\* Faulty variant: annotate reports success whatever it found.
AnnotateResultTrue(rows, incident_id) == "true"

AnnotateResult(rows, incident_id) ==
    IF Found(rows, incident_id) THEN "true" ELSE "false"

\* Faulty variant: the rows are deleted and the counter is left alone.
ClearedKeep == [db |-> <<>>, counter |-> counter]

\* clear_all, when DELETE FROM incidents went through.
Cleared == [db |-> <<>>, counter |-> 0]

\* Callers of the incident log: the incidents routes and the lifecycle code.
LogReady(t) == t \in Callers /\ call[t].pc = "done"

Limits == (0 - 1)..2           \* limit values a caller passes
IncidentIds == {FormatId(n) : n \in 1..(MaxEvents + 1)}

ApiLogEvent(t, app_id) ==
    /\ LogReady(t) /\ now < MaxEvents
    /\ LogEvent(app_id, "crash", "None", "None", "None")
    /\ call' = [call EXCEPT ![t] =
           [Returned("log_event", app_id, None, "logged")
               EXCEPT !.inc = FormatId(counter + 1),
                      !.view = <<Incident(app_id, "crash", "None", "None", "None")>>]]
    /\ UNCHANGED <<objs, reg, alive, apiVars, loopVars, healVars>>

ApiGetIncidents(t, limit, app_id) ==
    /\ LogReady(t)
    /\ call' = [call EXCEPT ![t] =
           [Returned("get_incidents", app_id, None, "rows")
               EXCEPT !.view = get_incidents(limit, app_id), !.limit = limit]]
    /\ UNCHANGED <<objs, reg, alive, apiVars, loopVars, healVars, logVars>>

ApiAnnotate(t, incident_id, note) ==
    /\ LogReady(t)
    /\ db' = IF storage = "up" THEN Annotated(db, incident_id, note) ELSE db
    /\ call' = [call EXCEPT ![t] =
           [Returned("annotate", "", None, AnnotateResult(db, incident_id))
               EXCEPT !.inc = incident_id, !.note = note]]
    /\ UNCHANGED <<counter, now, storage, issued>>
    /\ UNCHANGED <<objs, reg, alive, apiVars, loopVars, healVars>>

(***************************************************************************)
(* SelfHealer                                                              *)
(***************************************************************************)
IdleHeal ==
    [app |-> "", pc |-> "idle", tier |-> 0, found |-> FALSE, deps |-> <<>>,
     idx |-> 0, trail |-> <<>>]

(***************************************************************************)
\* Faulty variant: on_health_failure without the test of the marker.
AlreadyHealingNever(app_id) == FALSE

\* on_health_failure's test under the lock: already being healed.
AlreadyHealing(app_id) == healing[app_id]

\* on_health_failure: under the lock the marker is tested and set; then the
\* thread heal-<app_id> is started.
OnHealthFailure(app_id) ==
    /\ IF AlreadyHealing(app_id)
       THEN /\ hf' = [app |-> app_id, outcome |-> "ignored"]
            /\ UNCHANGED <<healing, heal, pool>>
       ELSE /\ pool # {}
            /\ LET w == WorkerOrder[Min({i \in DOMAIN WorkerOrder :
                                              WorkerOrder[i] \in pool})]
               IN  /\ heal' = [heal EXCEPT ![w] =
                          [IdleHeal EXCEPT !.app = app_id, !.pc = "begin", !.tier = 1]]
                   /\ pool' = pool \ {w}
            /\ healing' = [healing EXCEPT ![app_id] = TRUE]
            /\ hf' = [app |-> app_id, outcome |-> "started"]
    /\ UNCHANGED <<mgrVars, apiVars, loopVars, logVars>>

Push(w, tok) == Append(heal[w].trail, tok)

\* What a heal step that calls into the manager leaves alone.
HealCallFrame == UNCHANGED <<apiVars, loopVars, healing, pool, hf, logVars>>
\* What a heal step that logs an incident leaves alone.
HealLogFrame == UNCHANGED <<mgrVars, apiVars, loopVars, healing, pool, hf>>

\* Tier 1 begins: the incident with cause health_check_failed.
HealBegin(w) ==
    /\ heal[w].pc = "begin"
    /\ LogEvent(heal[w].app, "restart", "health_check_failed", "Tier 1", "None")
    /\ heal' = [heal EXCEPT ![w].pc = "restart",
                            ![w].trail = Push(w, <<"log", "health_check_failed">>)]
    /\ HealLogFrame

\* Faulty variant: Tier 2 restarting the service inside the loop over its
\* dependencies.
HealRestartEarly(w) ==
    LET h == heal[w]
    IN  /\ h.pc \in {"restart", "deps"}
        /\ call[w].pc = "done"
        /\ BeginRestart(w, h.app)
        /\ heal' = [heal EXCEPT ![w].pc = "wait",
                                ![w].trail = Push(w, <<"restart", h.app>>)]
        /\ HealCallFrame

\* restart_service(app_id): Tier 1 directly, Tier 2 after the dependencies.
HealRestart(w) ==
    LET h == heal[w]
    IN  /\ \/ h.pc = "restart"
           \/ h.pc = "deps" /\ h.idx > Len(h.deps)
        /\ call[w].pc = "done"
        /\ BeginRestart(w, h.app)
        /\ heal' = [heal EXCEPT ![w].pc = "wait",
                                ![w].trail = Push(w, <<"restart", h.app>>)]
        /\ HealCallFrame

\* After the tier's sleep: _is_healthy calls check_health(app_id).
HealRecheck(w) ==
    /\ heal[w].pc = "wait" /\ call[w].pc = "done"
    /\ BeginCheckHealth(w, heal[w].app)
    /\ heal' = [heal EXCEPT ![w].pc = "check"]
    /\ HealCallFrame

\* Faulty variant: _is_healthy taking every answered probe for healthy.
IsHealthyLax(f) == f.result \in {"healthy", "degraded"}

\* _is_healthy: result and result.get("status") == "healthy".
IsHealthy(f) == f.result = "healthy"

TierRecovery(tier) ==
    CASE tier = 1 -> "tier_1_recovery"
      [] tier = 2 -> "tier_2_recovery"
      [] OTHER -> "tier_3_recovery"

TierFailed(tier) ==
    CASE tier = 1 -> "tier_1_failed"
      [] tier = 2 -> "tier_2_failed"
      [] OTHER -> "all_tiers_failed"

\* The tier's verdict: recovered and return, or the next tier's incident
\* (after Tier 3: the crash incident with outcome escalated).
HealEval(w) ==
    LET h == heal[w]
        healthy == IsHealthy(call[w])
        seen == Push(w, <<"recheck", call[w].result>>)
    IN  /\ h.pc = "check" /\ call[w].pc = "done"
        /\ IF healthy
           THEN /\ LogEvent(h.app, "restart", TierRecovery(h.tier),
                            "succeeded", "recovered")
                /\ heal' = [heal EXCEPT
                       ![w].pc = "exit",
                       ![w].trail = Append(seen, <<"log", TierRecovery(h.tier)>>)]
           ELSE /\ LogEvent(h.app, IF h.tier = 3 THEN "crash" ELSE "restart",
                            TierFailed(h.tier), "next tier",
                            IF h.tier = 3 THEN "escalated" ELSE "None")
                /\ heal' = [heal EXCEPT
                       ![w].pc = CASE h.tier = 1 -> "get"
                                   [] h.tier = 2 -> "stop"
                                   [] OTHER -> "notify",
                       ![w].tier = IF h.tier = 3 THEN 3 ELSE h.tier + 1,
                       ![w].trail = Append(seen, <<"log", TierFailed(h.tier)>>)]
        /\ HealLogFrame

\* Tier 2: svc = self._mgr.get(app_id), the view whose dependencies the
\* loops of Tier 2 and Tier 3 walk.
HealGet(w) ==
    LET h == heal[w]
        svc == Lookup(h.app)
    IN  /\ h.pc = "get"
        /\ heal' = [heal EXCEPT
               ![w].pc = "deps", ![w].idx = 1,
               ![w].found = (svc # None),
               ![w].deps = IF svc # None THEN objs[svc].dependencies ELSE <<>>]
        /\ UNCHANGED <<mgrVars, apiVars, loopVars, healing, pool, hf, logVars>>

\* Tier 2: restart_service(dep_id) for the next dependency, then sleep(2).
HealRestartDep(w) ==
    LET h == heal[w]
    IN  /\ h.pc = "deps" /\ call[w].pc = "done" /\ h.idx <= Len(h.deps)
        /\ BeginRestart(w, h.deps[h.idx])
        /\ heal' = [heal EXCEPT ![w].idx = h.idx + 1,
                                ![w].trail = Push(w, <<"restart", h.deps[h.idx]>>)]
        /\ HealCallFrame

\* Tier 3: stop_service(app_id).
HealStop(w) ==
    LET h == heal[w]
    IN  /\ h.pc = "stop"
        /\ BeginStop(w, h.app)
        /\ heal' = [heal EXCEPT ![w].pc = "stopdeps", ![w].idx = 1,
                                ![w].trail = Push(w, <<"stop", h.app>>)]
        /\ HealCallFrame

\* Tier 3: stop_service(dep_id) for the next dependency.
HealStopDep(w) ==
    LET h == heal[w]
    IN  /\ h.pc = "stopdeps" /\ call[w].pc = "done" /\ h.idx <= Len(h.deps)
        /\ BeginStop(w, h.deps[h.idx])
        /\ heal' = [heal EXCEPT ![w].idx = h.idx + 1,
                                ![w].trail = Push(w, <<"stop", h.deps[h.idx]>>)]
        /\ HealCallFrame

\* Tier 3: time.sleep(config.RESTART_DELAY) between the stops and the starts.
HealSettle(w) ==
    LET h == heal[w]
    IN  /\ h.pc = "stopdeps" /\ call[w].pc = "done" /\ h.idx > Len(h.deps)
        /\ heal' = [heal EXCEPT ![w].pc = "startdeps", ![w].idx = 1]
        /\ UNCHANGED <<mgrVars, apiVars, loopVars, healing, pool, hf, logVars>>

\* Tier 3: start_service(dep_id) for the next dependency, then sleep(3).
HealStartDep(w) ==
    LET h == heal[w]
    IN  /\ h.pc = "startdeps" /\ call[w].pc = "done" /\ h.idx <= Len(h.deps)
        /\ BeginStart(w, h.deps[h.idx])
        /\ heal' = [heal EXCEPT ![w].idx = h.idx + 1,
                                ![w].trail = Push(w, <<"start", h.deps[h.idx]>>)]
        /\ HealCallFrame

\* Tier 3: start_service(app_id).
HealStart(w) ==
    LET h == heal[w]
    IN  /\ h.pc = "startdeps" /\ call[w].pc = "done" /\ h.idx > Len(h.deps)
        /\ BeginStart(w, h.app)
        /\ heal' = [heal EXCEPT ![w].pc = "wait",
                                ![w].trail = Push(w, <<"start", h.app>>)]
        /\ HealCallFrame

\* Answers of the escalation sink: the POST returns, or raises (caught).
Sinks == {"ok", "fail"}

\* Faulty variant: _notify_elaine retrying once after a failed POST.
HealNotifyRetry(w) ==
    /\ heal[w].pc = "notify"
    /\ \E sink \in Sinks :
          heal' = [heal EXCEPT
              ![w].pc = IF sink = "fail" /\
                           \A k \in DOMAIN heal[w].trail : heal[w].trail[k][1] # "notify"
                        THEN "notify" ELSE "exit",
              ![w].trail = Push(w, <<"notify", sink>>)]
    /\ UNCHANGED <<mgrVars, apiVars, loopVars, healing, pool, hf, logVars>>

\* _notify_elaine: one POST; an exception is logged, never raised.
HealNotify(w) ==
    /\ heal[w].pc = "notify"
    /\ \E sink \in Sinks :
          heal' = [heal EXCEPT ![w].pc = "exit",
                               ![w].trail = Push(w, <<"notify", sink>>)]
    /\ UNCHANGED <<mgrVars, apiVars, loopVars, healing, pool, hf, logVars>>

\* Faulty variant: A finally block that leaves the marker set.
HealExitKeep(w) ==
    /\ heal[w].pc = "exit"
    /\ healing' = healing
    /\ heal' = [heal EXCEPT ![w] = [IdleHeal EXCEPT !.pc = "ended"]]
    /\ UNCHANGED <<mgrVars, apiVars, loopVars, pool, hf, logVars>>

\* finally: the marker is cleared under the lock and the thread ends.
HealExit(w) ==
    /\ heal[w].pc = "exit"
    /\ healing' = [healing EXCEPT ![heal[w].app] = FALSE]
    /\ heal' = [heal EXCEPT ![w] = [IdleHeal EXCEPT !.pc = "ended"]]
    /\ UNCHANGED <<mgrVars, apiVars, loopVars, pool, hf, logVars>>

\* An exception raised inside the try block leaves it for the finally.
HealRaise(w) ==
    /\ heal[w].pc \notin {"idle", "exit", "ended"}
    /\ heal' = [heal EXCEPT ![w].pc = "exit",
                            ![w].trail = Push(w, <<"raise", "">>)]
    /\ call' = [call EXCEPT ![w] = IdleFrame]
    /\ UNCHANGED <<objs, reg, alive, apiVars, loopVars, healing, pool, hf, logVars>>

\* A step of the healing thread w that is not an exception.
HealStep(w) ==
    \/ HealBegin(w)
    \/ HealRestart(w)
    \/ HealRecheck(w)
    \/ HealEval(w)
    \/ HealGet(w)
    \/ HealRestartDep(w)
    \/ HealStop(w)
    \/ HealStopDep(w)
    \/ HealSettle(w)
    \/ HealStartDep(w)
    \/ HealStart(w)
    \/ HealNotify(w)
    \/ HealExit(w)
    \/ MgrStep(w)

(***************************************************************************)
(* Specifications                                                          *)
(***************************************************************************)
\* The state after create_app and SelfHealer(mgr): the registry loaded from
\* the definition source def, ws the healing threads a run can create.
InitWith(def, ws, st) ==
    /\ objs = [i \in 1..Len(def) |-> LoadEntry(def[i])]
    /\ reg = [id \in {def[i].id : i \in DOMAIN def} |->
                 CHOOSE i \in DOMAIN def : def[i].id = id]
    /\ alive = {}
    /\ call = [t \in Threads |-> IdleFrame]
    /\ prev = [t \in Threads |-> [op |-> "none", id |-> "", result |-> "none"]]
    /\ nCalls = 0
    /\ hl = [pc |-> "sleep", idx |-> 0, snap |-> <<>>,
             running |-> TRUE, thread |-> "alive", last |-> "start"]
    /\ nCycles = 0
    /\ healing = [id \in ArgIds |-> FALSE]
    /\ heal = [w \in Workers |-> IdleHeal]
    /\ pool = ws
    /\ db = <<>>
    /\ counter = 0
    /\ issued = 0
    /\ now = 0
    /\ storage \in st
    /\ hf = [app |-> "", outcome |-> "none"]

Init == \E gcmd \in BOOLEAN : InitWith(DefinitionOf(gcmd), {}, {"up"})

\* Request threads and the health-check thread, interleaved (the largest
\* composition: millions of states at MaxCalls = 3).
Next ==
    \/ \E t \in Callers, id \in ArgIds : ApiStart(t, id)
    \/ \E t \in Callers, id \in ArgIds : ApiStop(t, id)
    \/ \E t \in Callers, id \in ArgIds : ApiRestart(t, id)
    \/ \E t \in Callers, id \in ArgIds : ApiCheckHealth(t, id)
    \/ \E t \in Callers \cup {HealthThread} : MgrStep(t)
    \/ HealthCycle
    \/ HealthProbe
    \/ HealthSleep

Spec == Init /\ [][Next]_vars

\* One request thread, each call running to its return before the next.
NextSeq ==
    \/ \E id \in ArgIds : ApiStart("c1", id)
    \/ \E id \in ArgIds : ApiStop("c1", id)
    \/ \E id \in ArgIds : ApiRestart("c1", id)
    \/ \E id \in ArgIds : ApiCheckHealth("c1", id)
    \/ MgrStep("c1")

SpecSeq == Init /\ [][NextSeq]_vars

\* The healer, one healing sequence: on_health_failure calls for any
\* identifier and the healing thread.
InitHeal == InitWith(Definition, {"w1"}, {"up", "down"})

NextHeal ==
    \/ \E id \in ArgIds : OnHealthFailure(id)
    \/ \E w \in Workers : HealStep(w)

SpecHeal == InitHeal /\ [][NextHeal]_vars

\* The healer next to a caller that logs lifecycle events.
NextHealLog ==
    \/ NextHeal
    \/ \E app_id \in {"a"} : ApiLogEvent("c1", app_id)

SpecHealLog == InitHeal /\ [][NextHealLog]_vars

\* The healer, two healing threads, failures of a service and of an unknown
\* identifier; the incident table cannot be written (log_event still takes
\* an id for every incident).
HealPairIds == {"b", "x"}

InitHealPair == InitWith(Definition, {"w1", "w2"}, {"down"})

NextHealPair ==
    \/ \E id \in HealPairIds : OnHealthFailure(id)
    \/ \E w \in Workers : HealStep(w)

SpecHealPair == InitHealPair /\ [][NextHealPair]_vars

\* The healer, two healing threads, failures of service a and of service b
\* it depends on; the incident table cannot be written. The sequence of a
\* runs at any pace; the sequence of b runs up to Tier 1's
\* time.sleep(config.RESTART_DELAY) and is still asleep there.
HealDepIds == {"a", "b"}

Asleep(w) == heal[w].pc = "wait" /\ call[w].pc = "done"

NextHealDeps ==
    \/ \E id \in HealDepIds : OnHealthFailure(id)
    \/ \E w \in Workers : heal[w].app = "a" /\ HealStep(w)
    \/ \E w \in Workers : heal[w].app = "b" /\ ~Asleep(w) /\ HealStep(w)

SpecHealDeps == InitHealPair /\ [][NextHealDeps]_vars

\* The healer with exceptions, one service failing again and again: every
\* call of a run reports the same identifier, any step inside the try block
\* may raise, and a started healing thread keeps being scheduled.
NextHealFair ==
    \/ \E id \in HealPairIds : hf.app \in {"", id} /\ OnHealthFailure(id)
    \/ \E w \in Workers : HealStep(w)
    \/ \E w \in Workers : HealRaise(w)

InitHealFair == InitWith(Definition, {"w1", "w2"}, {"up"})

SpecHealFair ==
    /\ InitHealFair
    /\ [][NextHealFair]_vars
    /\ \A w \in Workers : WF_vars(HealStep(w))

\* The health-check thread next to the healer: create_app starts the loop,
\* SelfHealer.on_health_failure is the healer's entry point.
InitLoop == InitWith(Definition, {"w1"}, {"up"})

NextLoop ==
    \/ HealthCycle
    \/ HealthProbe
    \/ HealthSleep
    \/ PingStep(HealthThread)
    \/ \E id \in ArgIds : OnHealthFailure(id)
    \/ \E w \in Workers : HealStep(w)

SpecLoop == InitLoop /\ [][NextLoop]_vars

\* One request thread operating a service and reloading the registry; the
\* first load found the registry file or found none.
ReloadIds == {"a"}

InitReload ==
    \/ Init
    \/ InitWith(<<>>, {}, {"up"})

NextReload ==
    \/ \E id \in ReloadIds : ApiStart("c1", id)
    \/ \E id \in ReloadIds : ApiStop("c1", id)
    \/ \E id \in ReloadIds : ApiRestart("c1", id)
    \/ \E id \in ReloadIds : ApiCheckHealth("c1", id)
    \/ \E name \in Sources : ApiReload("c1", name)
    \/ MgrStep("c1")

SpecReload == InitReload /\ [][NextReload]_vars

\* One request thread operating a service, querying the registry and
\* changing what the queries returned.
ViewIds == {"b"}

NextView ==
    \/ \E id \in ViewIds : ApiStart("c1", id)
    \/ \E id \in ViewIds : ApiStop("c1", id)
    \/ \E id \in ViewIds : ApiRestart("c1", id)
    \/ \E id \in ViewIds : ApiCheckHealth("c1", id)
    \/ \E id \in ArgIds : ApiGet("c1", id)
    \/ ApiGetAll("c1")
    \/ \E group \in Groups : ApiGetByGroup("c1", group)
    \/ \E k \in 1..Len(Definition) : ViewAssign("c1", k)
    \/ \E k \in 1..Len(Definition), d \in Additions : ViewAppend("c1", k, d)
    \/ MgrStep("c1")

SpecView == Init /\ [][NextView]_vars

\* clear_all: the DELETE and the reset; when the database cannot be written
\* the exception is logged before _counter = 0 is reached.
ApiClearAll(t) ==
    /\ LogReady(t)
    /\ IF storage = "up"
       THEN /\ db' = Cleared.db
            /\ counter' = Cleared.counter
            /\ issued' = 0
            /\ call' = [call EXCEPT ![t] = Returned("clear_all", "", None, "cleared")]
       ELSE /\ call' = [call EXCEPT ![t] = Returned("clear_all", "", None, "failed")]
            /\ UNCHANGED <<db, counter, issued>>
    /\ UNCHANGED <<now, storage>>
    /\ UNCHANGED <<objs, reg, alive, apiVars, loopVars, healVars>>

\* The incident log on its own: one caller logging, querying and annotating,
\* and the process restarting; the database is writable or it is not.
InitLog == InitWith(Definition, {}, {"up", "down"})

NextLog ==
    \/ \E app_id \in AppIds : ApiLogEvent("c1", app_id)
    \/ \E limit \in Limits, app_id \in AppArgs : ApiGetIncidents("c1", limit, app_id)
    \/ \E incident_id \in IncidentIds, note \in Notes :
           ApiAnnotate("c1", incident_id, note)
    \/ ProcessRestart

SpecLog == InitLog /\ [][NextLog]_vars

\* One request thread operating a service and the groups.
GroupIds == {"a"}

NextGroup ==
    \/ \E id \in GroupIds : ApiStart("c1", id)
    \/ \E id \in GroupIds : ApiStop("c1", id)
    \/ \E id \in GroupIds : ApiRestart("c1", id)
    \/ \E id \in GroupIds : ApiCheckHealth("c1", id)
    \/ \E group \in Groups : ApiGroup("c1", "start_group", group)
    \/ \E group \in Groups : ApiGroup("c1", "stop_group", group)
    \/ MgrStep("c1")
    \/ GroupStep("c1")

SpecGroup == Init /\ [][NextGroup]_vars

\* The incident log with its bulk clear.
NextClear ==
    \/ NextLog
    \/ ApiClearAll("c1")

SpecClear == InitLog /\ [][NextClear]_vars

\* Two request threads restarting services, interleaved.
RestartStep(t) ==
    \/ RestartKill(t) /\ MgrFrame
    \/ RestartSpawn(t) /\ MgrFrame
    \/ RestartIncr(t) /\ MgrFrame
    \/ RestartReturn(t) /\ MgrFrame

NextRestart ==
    \/ \E t \in Callers, id \in ArgIds : ApiRestart(t, id)
    \/ \E t \in Callers : RestartStep(t)

SpecRestart == Init /\ [][NextRestart]_vars

\* A definition source with a chain of dependencies: a depends on b, b on
\* c, all with a command; one request thread starting, stopping and
\* probing them.
Chain ==
    << [id |-> "a", group |-> "core", ghost |-> FALSE,
        dependencies |-> <<"b">>, start_command |-> TRUE],
       [id |-> "b", group |-> "core", ghost |-> FALSE,
        dependencies |-> <<"c">>, start_command |-> TRUE],
       [id |-> "c", group |-> "core", ghost |-> FALSE,
        dependencies |-> <<>>, start_command |-> TRUE] >>

ChainIds == {Chain[i].id : i \in DOMAIN Chain}

ChainStep(t) ==
    \/ StartDep(t) /\ MgrFrame
    \/ StartSelf(t) /\ MgrFrame
    \/ StopKill(t) /\ MgrFrame
    \/ PingStep(t)

InitChain == InitWith(Chain, {}, {"up"})

NextChain ==
    \/ \E id \in ChainIds : ApiStart("c1", id)
    \/ \E id \in ChainIds : ApiStop("c1", id)
    \/ \E id \in ChainIds : ApiCheckHealth("c1", id)
    \/ ChainStep("c1")

SpecChain == InitChain /\ [][NextChain]_vars

\* A launched process ends on its own; the registry is not told.
ProcessExits(q) ==
    /\ q \in alive
    /\ alive' = alive \ {q}
    /\ UNCHANGED <<objs, reg, call, apiVars, loopVars, healVars, logVars>>

\* One request thread starting and stopping services whose processes may
\* end on their own.
StopStep(t) ==
    \/ StartDep(t) /\ MgrFrame
    \/ StartSelf(t) /\ MgrFrame
    \/ StopKill(t) /\ MgrFrame

NextStop ==
    \/ \E id \in ArgIds : ApiStart("c1", id)
    \/ \E id \in ArgIds : ApiStop("c1", id)
    \/ StopStep("c1")
    \/ \E q \in alive : ProcessExits(q)

SpecStop == Init /\ [][NextStop]_vars

\* One request thread operating a service while another reloads the
\* registry from its unchanged file.
NextReloadRace ==
    \/ \E id \in ReloadIds : ApiStart("c1", id)
    \/ \E id \in ReloadIds : ApiStop("c1", id)
    \/ \E id \in ReloadIds : ApiRestart("c1", id)
    \/ \E id \in ReloadIds : ApiCheckHealth("c1", id)
    \/ MgrStep("c1")
    \/ ApiReload("c2", "registry")

SpecReloadRace == Init /\ [][NextReloadRace]_vars

\* The health-check thread, started by create_app, with calls of
\* start_health_loop and stop_health_loop in any order.
NextLoopCtl ==
    \/ StartHealthLoop
    \/ StopHealthLoop
    \/ HealthCycle
    \/ HealthProbe
    \/ PingStep(HealthThread)
    \/ HealthSleep
    \/ HealthExit

SpecLoopCtl == Init /\ [][NextLoopCtl]_vars

\* Sequence numbers of incidents an earlier run of the process may have
\* stored, around the width of the id format.
StoredNumbers == {1, 9998, 9999, 10000, 10001}

\* The rows stored for the numbers S, in the order they were logged.
RECURSIVE StoredRows(_)
StoredRows(S) ==
    IF S = {} THEN <<>>
    ELSE LET n == CHOOSE x \in S : \A y \in S : y <= x
         IN  Append(StoredRows(S \ {n}),
                    [id |-> FormatId(n), timestamp |-> 0, app_id |-> "a",
                     event |-> "crash", cause |-> "None", details |-> "None",
                     outcome |-> "None", annotation |-> "None"])

\* The greatest sequence number among the stored ids, 0 without rows.
MaxStored(rows) ==
    IF rows = <<>> THEN 0
    ELSE LET nums == {ParseId(rows[i].id) : i \in DOMAIN rows}
         IN  CHOOSE m \in nums : \A x \in nums : x <= m

\* The process starts on a table an earlier run has filled: importing
\* incident_logger runs _init_counter.
InitStored ==
    /\ \E S \in SUBSET StoredNumbers : db = StoredRows(S)
    /\ storage = "up"
    /\ counter = _init_counter(db)
    /\ issued = MaxStored(db)
    /\ now = 0
    /\ objs = [i \in 1..Len(Definition) |-> LoadEntry(Definition[i])]
    /\ reg = [id \in {Definition[i].id : i \in DOMAIN Definition} |->
                 CHOOSE i \in DOMAIN Definition : Definition[i].id = id]
    /\ alive = {}
    /\ call = [t \in Threads |-> IdleFrame]
    /\ prev = [t \in Threads |-> [op |-> "none", id |-> "", result |-> "none"]]
    /\ nCalls = 0
    /\ hl = [pc |-> "sleep", idx |-> 0, snap |-> <<>>,
             running |-> TRUE, thread |-> "alive", last |-> "start"]
    /\ nCycles = 0
    /\ healing = [id \in ArgIds |-> FALSE]
    /\ heal = [w \in Workers |-> IdleHeal]
    /\ pool = {}
    /\ hf = [app |-> "", outcome |-> "none"]

NextStored ==
    \/ ApiLogEvent("c1", "a")
    \/ ProcessRestart

SpecStored == InitStored /\ [][NextStored]_vars

\* Two request threads logging incidents at the same time, on a database
\* that can be written.
NextLogPair ==
    \/ \E t \in Callers, app_id \in AppIds : LogNextId(t, app_id)
    \/ \E t \in Callers : LogStamp(t)
    \/ \E t \in Callers : LogInsert(t)

SpecLogPair == InitWith(Definition, {}, {"up"}) /\ [][NextLogPair]_vars

(***************************************************************************)
(* Properties                                                              *)
(***************************************************************************)
Last(s) == s[Len(s)]

\* Healing threads inside _heal for app_id.
ActiveWorkers(app_id) ==
    {w \in Workers : heal[w].app = app_id /\ heal[w].pc \notin {"idle", "ended"}}

AtMostOneHealer ==
    \A id \in ArgIds :
        /\ Cardinality(ActiveWorkers(id)) <= 1
        /\ healing[id] <=> ActiveWorkers(id) # {}

\* A step that is an on_health_failure call for an identifier whose marker
\* is set changes nothing but the record of the call: no thread is started,
\* log_event takes no incident id, the registry is untouched.
IgnoredCallIsNoOp ==
    (hf' # hf /\ healing[hf'.app]) =>
        /\ hf'.outcome = "ignored"
        /\ UNCHANGED <<healing, heal, pool, db, counter, mgrVars>>

\* C1: for every service id at most one healing thread is inside _heal at
\* any time, and an on_health_failure(id) call made while the marker of id
\* is set starts no thread and logs no incident, under every interleaving.
C1_OneHealingSequence == []AtMostOneHealer /\ [][IgnoredCallIsNoOp]_vars

\* A call for an identifier was ignored while both healing threads run.
C1_Witness ==
    /\ hf.outcome = "ignored"
    /\ ActiveWorkers(hf.app) # {}
    /\ \A w \in Workers : heal[w].pc \notin {"idle", "ended"}

\* C2: every healing sequence started by on_health_failure(id) eventually
\* has the marker of id cleared, whether it recovered, escalated, ran for an
\* unknown id or raised; a call made with the marker clear starts a sequence.
C2_MarkerCleared ==
    /\ \A id \in ArgIds : healing[id] ~> ~healing[id]
    /\ [][(hf' # hf /\ ~healing[hf'.app]) =>
             (hf'.outcome = "started" /\ healing'[hf'.app])]_vars

\* Two sequences for the same identifier have begun, one after the other,
\* and the marker is clear again.
C2_Witness ==
    \E i, j \in DOMAIN db :
        /\ i < j
        /\ db[i].cause = "health_check_failed"
        /\ db[j].cause = "health_check_failed"
        /\ db[i].app_id = db[j].app_id
        /\ ~healing[db[i].app_id]

\* The incidents and re-checks of a healing thread, in order.
LogTrail(w) ==
    SelectSeq(heal[w].trail, LAMBDA tok : tok[1] \in {"log", "recheck"})

ExpectedFailed == <<"tier_1_failed", "tier_2_failed", "all_tiers_failed">>
ExpectedRecovery == <<"tier_1_recovery", "tier_2_recovery", "tier_3_recovery">>
RecoveryCauses == {ExpectedRecovery[k] : k \in DOMAIN ExpectedRecovery}

\* Incidents and re-checks alternate, from health_check_failed on; after
\* the re-check of tier k comes tier k's failure incident if the re-check
\* was not healthy, and tier k's recovery incident, the last entry, if it was.
TierOrder(w) ==
    LET L == LogTrail(w)
        T == heal[w].trail
    IN  /\ Len(L) <= 7
        /\ \A i \in DOMAIN L :
              IF i % 2 = 1
              THEN /\ L[i][1] = "log"
                   /\ \/ i = 1 /\ L[i][2] = "health_check_failed"
                      \/ /\ i > 1 /\ L[i-1][2] = "healthy"
                         /\ L[i][2] = ExpectedRecovery[(i - 1) \div 2]
                      \/ /\ i > 1 /\ L[i-1][2] # "healthy"
                         /\ L[i][2] = ExpectedFailed[(i - 1) \div 2]
              ELSE /\ L[i][1] = "recheck"
                   /\ i < Len(L)
        /\ \A k \in DOMAIN T :
              (T[k][1] = "log" /\ T[k][2] \in RecoveryCauses) =>
                  (k = Len(T) /\ heal[w].pc = "exit")

\* The rows of the incident table: recovery incidents, and only they, carry
\* the outcome recovered.
RecoveredRows ==
    \A i \in DOMAIN db :
        (db[i].cause \in RecoveryCauses) <=> (db[i].outcome = "recovered")

\* C3: within one healing sequence the incidents are logged in the order
\* health_check_failed, tier_1_failed, tier_2_failed, all_tiers_failed, each
\* later one only after the preceding tier's re-check was not healthy; once
\* a re-check is healthy an incident with outcome recovered is logged and
\* no further tier action or incident follows.
C3_TierOrder == (\A w \in Workers : TierOrder(w)) /\ RecoveredRows

\* A sequence that failed Tiers 1 and 2 and recovered at Tier 3.
C3_Witness ==
    \E w \in Workers :
        /\ Len(LogTrail(w)) = 7
        /\ Last(heal[w].trail) = <<"log", "tier_3_recovery">>
        /\ storage = "up"

Count(s, Test(_)) == Len(SelectSeq(s, Test))

\* The sequence of w ran its three re-checks and none was healthy.
NeverHealthy(w) ==
    /\ Count(heal[w].trail, LAMBDA tok : tok[1] = "recheck") = 3
    /\ \A k \in DOMAIN heal[w].trail :
          heal[w].trail[k][1] = "recheck" => heal[w].trail[k][2] # "healthy"

EscalatedOnce(w) ==
    LET T == heal[w].trail
    IN  /\ Count(T, LAMBDA tok : tok = <<"log", "all_tiers_failed">>) = 1
        /\ Count(T, LAMBDA tok : tok[1] = "notify") = 1
        /\ Len(T) >= 2
        /\ T[Len(T) - 1] = <<"log", "all_tiers_failed">>
        /\ T[Len(T)][1] = "notify"
        /\ storage = "up" =>
              Count(db, LAMBDA r : r.outcome = "escalated" \/ r.event = "crash"
                                      \/ r.cause = "all_tiers_failed") = 1
              /\ Count(db, LAMBDA r : /\ r.app_id = heal[w].app
                                      /\ r.event = "crash"
                                      /\ r.cause = "all_tiers_failed"
                                      /\ r.outcome = "escalated") = 1

EscalationInv ==
    \A w \in Workers :
        /\ (heal[w].pc = "exit" /\ NeverHealthy(w)) => EscalatedOnce(w)
        /\ (heal[w].trail # <<>> /\ Last(heal[w].trail)[1] = "notify") =>
              heal[w].pc = "exit"

\* The step that leaves the finally block clears the marker.
ExitClears ==
    \A w \in Workers :
        (heal[w].pc = "exit" /\ heal'[w] # heal[w]) =>
            (heal'[w].pc = "ended" /\ ~healing'[heal[w].app])

\* C4: a healing sequence never healthy at any of the three re-checks
\* produces exactly one incident with event crash, cause all_tiers_failed
\* and outcome escalated (one log_event call; one row when the table can be
\* written), followed by exactly one notification attempt; a failed
\* notification is not raised and the marker is still cleared.
C4_Escalation == []EscalationInv /\ [][ExitClears]_vars

\* The notification failed after three unhealthy re-checks; the thread is
\* in its finally block.
C4_Witness ==
    \E w \in Workers :
        /\ heal[w].pc = "exit"
        /\ NeverHealthy(w)
        /\ Last(heal[w].trail) = <<"notify", "fail">>
        /\ storage = "up"

\* C5: a health probe of a service whose port is closed sets its health to
\* unreachable and its status to stopped, and triggers one Tier-1 incident
\* (restart, health_check_failed) for it: the probe's own step reports the
\* failure to the healer, which sets the marker of the service.
C5_ProbeTriggersHealing ==
    [][\A t \in Threads :
          (call[t].pc = "ping" /\ call'[t].pc = "done"
              /\ call'[t].result = "unreachable") =>
             /\ objs'[call[t].svc].health = "unreachable"
             /\ objs'[call[t].svc].status = "stopped"
             /\ healing'[call[t].id]]_vars

\* The frame of a start_service call that returned its success result.
StartReturned(f) ==
    f.op = "start_service" /\ f.pc = "done" /\ f.result = "starting"

\* The launches a call made of the service id.
LaunchesOf(f, id) == SelectSeq(f.launches, LAMBDA e : e[1] = id)

\* Every dependency that was known and not running at the call (f.pre) was
\* launched once by the call, nothing else but the service itself was.
SpawnedOnce(f) ==
    /\ Len(LaunchesOf(f, f.id)) = 1
    /\ \A d \in DOMAIN reg \ {f.id} :
          Len(LaunchesOf(f, d)) = IF d \in f.pre THEN 1 ELSE 0

\* C6, as stated: after start_service(s) returned its success result the
\* status of s is starting, and every direct dependency not running at the
\* call was spawned exactly once by the call, running ones not at all.
C6_StartedAsStated ==
    \A t \in Callers :
        StartReturned(call[t]) =>
            /\ objs[call[t].svc].status = "starting"
            /\ SpawnedOnce(call[t])

\* C6, amended: for every non-ghost, not-running service s, after
\* start_service(s) returned its success result, with no other operation
\* overlapping the call: _spawn was invoked exactly once for s and for each
\* direct dependency that was known and not running at the call, and for no
\* other service; the status of s is starting, unless the launch of s
\* failed, which leaves it stopped.
C6_Started ==
    \A t \in Callers :
        StartReturned(call[t]) =>
            /\ SpawnedOnce(call[t])
            /\ objs[call[t].svc].status =
                  IF LaunchesOf(call[t], call[t].id)[1][2] = "fail"
                  THEN "stopped" ELSE "starting"

\* start_service(a) returned while b was running: only g was launched as
\* a dependency, and the launch of a itself failed.
C6_Witness ==
    \E t \in Callers :
        /\ StartReturned(call[t])
        /\ call[t].id = "a"
        /\ call[t].pre = {"g"}
        /\ objs[reg["b"]].status = "running"
        /\ LaunchesOf(call[t], "a")[1][2] = "fail"

\* The declared dependencies of the call's service that were known and not
\* running at the call, in declared order.
ExpectedChain(f) ==
    SelectSeq(objs[f.svc].dependencies, LAMBDA d : d \in f.pre)

\* C7, as stated: start_service(A) returns as dependency_chain exactly the
\* known direct dependencies that were not running, in declared order, and
\* afterwards A and every listed dependency have status starting.
C7_ChainAsStated ==
    \A t \in Callers :
        StartReturned(call[t]) =>
            /\ call[t].dep_chain = ExpectedChain(call[t])
            /\ objs[call[t].svc].status = "starting"
            /\ \A k \in DOMAIN call[t].dep_chain :
                  objs[reg[call[t].dep_chain[k]]].status = "starting"

\* The status a launch leaves: starting when the process was started,
\* stopped when the launch failed, as before without a start command.
StatusAfter(e) ==
    CASE e[2] = "ok" -> "starting"
      [] e[2] = "fail" -> "stopped"
      [] OTHER -> e[3]

\* C7, amended: start_service(A), with no other operation overlapping,
\* returns as dependency_chain exactly the known direct dependencies that
\* were not running, in declared order; afterwards A and each listed
\* dependency have status starting if their launch succeeded, stopped if it
\* failed, and a dependency without a start command keeps its status.
C7_Chain ==
    \A t \in Callers :
        StartReturned(call[t]) =>
            /\ call[t].dep_chain = ExpectedChain(call[t])
            /\ [k \in DOMAIN call[t].launches |-> call[t].launches[k][1]]
                  = call[t].dep_chain \o <<call[t].id>>
            /\ \A k \in DOMAIN call[t].launches :
                  objs[reg[call[t].launches[k][1]]].status =
                      StatusAfter(call[t].launches[k])

\* start_service(a) with b and g not running returned the chain b, g; g
\* has no start command and stays stopped while a and b are starting.
C7_Witness ==
    \E t \in Callers :
        /\ StartReturned(call[t])
        /\ call[t].dep_chain = <<"b", "g">>
        /\ call[t].launches[2][2] = "skipped"
        /\ objs[reg["g"]].status = "stopped"
        /\ objs[reg["b"]].status = "starting"
        /\ objs[reg["a"]].status = "starting"

\* Thread t begins a call of op in this step.
Begins(t, op) == nCalls' = nCalls + 1 /\ call'[t] # call[t] /\ call'[t].op = op

\* A stop_service call on a non-ghost service that is not stopped returns
\* stopped; a stop_service call that directly follows it on the same service
\* returns conflict and changes no service's state.
StopTwice ==
    \A t \in Callers :
        /\ (Begins(t, "stop_service") /\ call'[t].svc # None
               /\ ~objs[call'[t].svc].ghost
               /\ objs[call'[t].svc].status # "stopped") =>
              call'[t].pc = "kill"
        /\ (call[t].op = "stop_service" /\ call[t].pc = "kill"
               /\ call'[t] # call[t]) =>
              (call'[t].pc = "done" /\ call'[t].result = "stopped")
        /\ (Begins(t, "stop_service") /\ call[t].op = "stop_service"
               /\ call[t].result = "stopped" /\ call'[t].id = call[t].id) =>
              /\ call'[t].pc = "done"
              /\ call'[t].result = "conflict"
              /\ objs'[call[t].svc].pid = objs[call[t].svc].pid
              /\ objs' = objs

\* C8: for every non-ghost service that is not stopped, two stop_service
\* calls in a row return stopped the first time and conflict the second
\* time, and the pid does not change from the end of the first call to the
\* end of the second.
C8_StopTwice == [][StopTwice]_vars

\* The second of two stop_service calls in a row has returned conflict.
C8_Witness ==
    \E t \in Callers :
        /\ call[t].op = "stop_service" /\ call[t].result = "conflict"
        /\ prev[t].op = "stop_service" /\ prev[t].result = "stopped"
        /\ prev[t].id = call[t].id

LifecycleOps == {"start_service", "stop_service", "restart_service"}

\* A lifecycle call on a ghost returns the ghost outcome in its first step
\* and changes no service's state.
GhostForbidden ==
    \A t \in Callers, op \in LifecycleOps :
        (Begins(t, op) /\ call'[t].svc # None /\ objs[call'[t].svc].ghost) =>
            /\ call'[t].pc = "done"
            /\ call'[t].result = "ghost"
            /\ objs' = objs
            /\ alive' = alive

\* C9: start_service, stop_service and restart_service on a ghost service
\* always return the ghost-forbidden outcome and never change its status,
\* pid or restart counter, whatever the service's current state.
C9_GhostForbidden == [][GhostForbidden]_vars

\* restart_service was refused on a ghost whose status is running.
C9_Witness ==
    \E t \in Callers :
        /\ call[t].op = "restart_service" /\ call[t].result = "ghost"
        /\ objs[call[t].svc].status = "running"

\* C10: in every reachable state a ghost service has status stopped, and no
\* operation ever probes, spawns or changes the state of a ghost service.
C10_GhostUntouched ==
    /\ \A i \in DOMAIN objs :
          objs[i].ghost =>
              /\ objs[i].status = "stopped"
              /\ objs[i].health = "unknown"
              /\ objs[i].pid = None
              /\ objs[i].last_health_check = None
    /\ \A t \in Threads :
          (call[t].svc # None /\ objs[call[t].svc].ghost) =>
              /\ call[t].pc # "ping"
              /\ call[t].result \in {"none", "ghost"}
    /\ \A t \in Threads :
          \A k \in DOMAIN call[t].launches :
              ~objs[reg[call[t].launches[k][1]]].ghost

\* The processes launched for the service id that were not sent a signal.
ProcessesOf(id) == {q \in alive : q[2] = id}

\* C11: in every reachable state a non-ghost service whose status is
\* running has exactly one process identifier: its pid is set, and no other
\* process launched for it is still unterminated.
C11_OnePidWhenRunning ==
    \A id \in DOMAIN reg :
        (~objs[reg[id]].ghost /\ objs[reg[id]].status = "running") =>
            /\ objs[reg[id]].pid # None
            /\ ProcessesOf(id) \subseteq {<<objs[reg[id]].pid, id>>}

\* The step of restart_service that stores the counter raises it by one,
\* and the call returns as attempt the value it stored.
RestartCounts ==
    \A t \in Threads :
        /\ (call[t].op = "restart_service" /\ call[t].pc = "incr"
               /\ call'[t].pc = "ret") =>
              objs'[call[t].svc].restart_count =
                  objs[call[t].svc].restart_count + 1
        /\ (call[t].op = "restart_service" /\ call[t].pc = "ret"
               /\ call'[t].pc = "done") =>
              /\ call'[t].result = "restarting"
              /\ call'[t].attempt = call[t].tmp + 1

\* C12: each successful restart_service(id) increments the restart counter
\* of the service by exactly one and returns the new value as attempt, so
\* that N successful restarts, sequential or concurrent, raise it by N.
C12_RestartCounts == [][RestartCounts]_vars

\* The runtime fields of a service dict.
Runtime(svc) ==
    <<svc.status, svc.health, svc.pid, svc.started_at,
      svc.last_health_check, svc.restart_count>>

\* The structural fields of a service dict or of an entry of the source.
Structural(svc) ==
    <<svc.group, svc.ghost, svc.dependencies, svc.start_command>>

\* Thread t calls reload_registry in this step.
ReloadStep(t) ==
    /\ nCalls' = nCalls + 1
    /\ call'[t].op = "reload_registry"
    /\ \A u \in Threads \ {t} : call'[u] = call[u] /\ call[u].op # "reload_registry"

ReloadPreserves == \A t \in Threads : ReloadStep(t) =>
    /\ DOMAIN reg \subseteq DOMAIN reg'
    /\ \A id \in DOMAIN reg :
          Runtime(objs'[reg'[id]]) = Runtime(objs[reg[id]])
    /\ call'[t].result = "reloaded" =>
          LET services == Source(call'[t].src).services
          IN  \A k \in DOMAIN services :
                  /\ services[k].id \in DOMAIN reg'
                  /\ Structural(objs'[reg'[services[k].id]]) =
                         Structural(services[k])

\* C13: a reload keeps, for every identifier already registered, its status,
\* health, pid, start time, last check and restart counter, and a reload that
\* completes gives every identifier of the source the structural fields
\* (group, ghost flag, dependencies, command) of the fresh definition.
C13_ReloadPreserves == [][ReloadPreserves]_vars

\* A running, once restarted service a right after a reload of the edited
\* source.
C13_Reloaded ==
    /\ call["c1"].op = "reload_registry" /\ call["c1"].pc = "done"
    /\ call["c1"].src = "edited" /\ call["c1"].result = "reloaded"
    /\ "a" \in DOMAIN reg
    /\ objs[reg["a"]].status = "running" /\ objs[reg["a"]].pid # None
    /\ objs[reg["a"]].restart_count = 1
    /\ objs[reg["a"]].dependencies = <<"b">>

FailingSources == {"missing", "malformed", "empty", "noid"}

ReloadFailsSoftly == \A t \in Threads :
    (ReloadStep(t) /\ call'[t].src \in FailingSources) =>
        /\ call'[t].result # "raised"
        /\ reg' = reg
        /\ \A id \in DOMAIN reg : objs'[reg'[id]] = objs[reg[id]]

\* C14: a reload whose source is missing, unparseable, empty or holds an
\* entry without an identifier does not raise and leaves every registered
\* service as it was, with no entry of the source applied.
C14_ReloadFailsSoftly == [][ReloadFailsSoftly]_vars

\* What get(id) returns in registry w, the nested list read through.
Queried(w, id) ==
    LET svc == w.objs[w.reg[id]]
    IN  [id |-> svc.id, group |-> svc.group, status |-> svc.status,
         health |-> svc.health, last_health_check |-> svc.last_health_check,
         restart_count |-> svc.restart_count, ghost |-> svc.ghost,
         dependencies |-> svc.dependencies]

\* The caller changes a value it was handed in this step: no call begins and
\* none advances.
ViewStep ==
    /\ nCalls' = nCalls
    /\ \A t \in Threads : call'[t].pc = "done" /\ call[t].pc = "done"
    /\ \E u \in Callers : call[u].view # <<>>
    /\ (objs' # objs \/ call' # call)

ViewsAreCopies == ViewStep =>
    \A id \in DOMAIN reg :
        Queried([objs |-> objs', reg |-> reg'], id) =
            Queried([objs |-> objs, reg |-> reg], id)

\* C15: changing a value returned by get, get_all or get_by_group, the
\* dependencies list included, leaves what a later query returns unchanged.
C15_ViewsAreCopies == [][ViewsAreCopies]_vars

\* Thread t is in a call and past its with self._lock block.
OutsideLock(t) == call[t].pc # "done"

MutatesLocked == \A t \in Threads :
    (OutsideLock(t) /\ call'[t] # call[t]) => objs' = objs

\* C16: start, stop, restart and the health probes change a service record
\* only in a step taken while the registry lock is held.
C16_MutatesLocked == [][MutatesLocked]_vars

\* Two threads have a probe of the same service in flight.
Overlap(t, u) ==
    /\ t # u /\ call[t].pc = "ping" /\ call[u].pc = "ping"
    /\ call[t].svc = call[u].svc

\* C17: no two probes of one service are in flight at the same time.
C17_ProbesNeverOverlap == \A t \in Threads : \A u \in Threads : ~Overlap(t, u)

\* log_event returns an identifier in this step.
LogStep == now' = now + 1

IdsIncrease == LogStep => counter' > issued

\* C18: the sequence number log_event returns is greater than every one it
\* returned before, a process restart in between or not.
C18_IdsIncrease == [][IdsIncrease]_vars

\* Thread t returns from get_incidents in this step.
GetStep(t) == call'[t].op = "get_incidents" /\ call'[t] # call[t]

\* The stored rows a query for app_id is about.
Matching(app_id) ==
    {i \in DOMAIN db : app_id # NoFilter => db[i].app_id = app_id}

NewestFirst(rows) ==
    \A i \in DOMAIN rows : \A j \in DOMAIN rows :
        i < j => rows[i].timestamp > rows[j].timestamp

\* rows are the k most recently logged of the stored rows M.
MostRecent(rows, M, k) ==
    /\ \A i \in DOMAIN rows : \E j \in M : db[j] = rows[i]
    /\ Len(rows) = IF k < Cardinality(M) THEN k ELSE Cardinality(M)
    /\ \A j \in M :
          \/ \E i \in DOMAIN rows : rows[i] = db[j]
          \/ \A i \in DOMAIN rows : db[j].timestamp < rows[i].timestamp

\* What the claim says of the rows returned for limit k and app_id.
AsQueried(rows, k, app_id) ==
    /\ Len(rows) <= k
    /\ NewestFirst(rows)
    /\ MostRecent(rows, Matching(app_id), k)
    /\ app_id # NoFilter => \A i \in DOMAIN rows : rows[i].app_id = app_id

QueryAsStated == \A t \in Threads : GetStep(t) =>
    AsQueried(call'[t].view, call'[t].limit, call'[t].id)

\* C19 as stated: get_incidents(limit=k, app_id) returns at most k records,
\* newest first, the k most recently logged matching ones, all of them of
\* app_id when one is given.
C19_QueryAsStated == [][QueryAsStated]_vars

Query == \A t \in Threads : GetStep(t) =>
    LET rows == call'[t].view
        k == call'[t].limit
        app_id == IF call'[t].id = "" THEN NoFilter ELSE call'[t].id
    IN  IF k >= 0
        THEN AsQueried(rows, k, app_id)
        ELSE AsQueried(rows, Cardinality(Matching(app_id)), app_id)

\* C19: for k >= 0 get_incidents(limit=k, app_id) returns at most k stored
\* records, newest first, the k most recently logged matching ones, all of
\* them of app_id when a non-empty one is given; a negative k returns every
\* matching record and an empty app_id is no filter.
C19_Query == [][Query]_vars

\* A query for the newest record of a, with two of a and one of b stored.
C19_Queried ==
    /\ call["c1"].op = "get_incidents" /\ call["c1"].limit = 1
    /\ call["c1"].id = "a" /\ Len(call["c1"].view) = 1
    /\ Cardinality({i \in DOMAIN db : db[i].app_id = "a"}) = 2
    /\ \E i \in DOMAIN db : db[i].app_id = "b"

\* Thread t returns from annotate in this step.
AnnotateStep(t) == call'[t].op = "annotate" /\ call'[t] # call[t]

Exists(incident_id) == \E i \in DOMAIN db : db[i].id = incident_id

Annotates ==
  /\ (\A t \in Threads : ~AnnotateStep(t)) =>
        \A i \in DOMAIN db : db'[i] = db[i]
  /\ \A t \in Threads :
    /\ AnnotateStep(t) =>
          /\ DOMAIN db' = DOMAIN db
          /\ IF Exists(call'[t].inc)
             THEN /\ call'[t].result = "true"
                  /\ \A i \in DOMAIN db :
                        db'[i] = IF db[i].id = call'[t].inc
                                 THEN [db[i] EXCEPT !.annotation = call'[t].note]
                                 ELSE db[i]
             ELSE /\ call'[t].result = "false"
                  /\ db' = db
    /\ GetStep(t) =>
          \A i \in DOMAIN call'[t].view :
              \E j \in DOMAIN db : db[j] = call'[t].view[i]

Written(row) ==
    <<row.id, row.timestamp, row.app_id, row.event, row.cause, row.details,
      row.outcome>>

RecordsKept ==
    /\ \A i \in DOMAIN db :
          /\ i \in DOMAIN db'
          /\ Written(db'[i]) = Written(db[i])
    /\ \A i \in DOMAIN db :
          (db'[i].annotation # db[i].annotation) =>
              \E t \in Threads : AnnotateStep(t) /\ call'[t].inc = db[i].id

\* C21: a stored incident keeps its id, timestamp, app_id, event, cause,
\* details and outcome in every step of log_event, annotate and
\* get_incidents, and an annotation changes only in an annotate call and
\* only on the record the call names.
C21_RecordsKept == [][RecordsKept]_vars

\* The second of three stored incidents annotated, the first without a
\* note and the third with the other one.
C21_OneRecordAnnotated ==
    /\ call["c1"].op = "annotate" /\ call["c1"].result = "true"
    /\ call["c1"].note = "n1" /\ call["c1"].inc = FormatId(2)
    /\ Len(db) = 3 /\ db[1].annotation = "None" /\ db[3].annotation = "n2"
    /\ db[2].annotation = "n1"

\* Thread t returns from clear_all in this step.
ClearStep(t) == call'[t].op = "clear_all" /\ call[t].op # "clear_all"

\* Thread t logs an event right after its clear_all.
LogAfterClear(t) == call[t].op = "clear_all" /\ call'[t].op = "log_event"

Stored(incident_id) == \E i \in DOMAIN db' : db'[i].id = incident_id

ClearedAsStated == \A t \in Threads :
    /\ ClearStep(t) =>
          /\ db' = <<>>
          /\ counter' = 0
    /\ LogAfterClear(t) =>
          /\ call'[t].inc = FormatId(1)
          /\ Stored(call'[t].inc)

\* C22 as stated: after clear_all the table is empty and the counter zero,
\* and the next log_event returns INC-0001 and stores it.
C22_ClearedAsStated == [][ClearedAsStated]_vars

ClearedWhenWritable == \A t \in Threads :
    /\ ClearStep(t) =>
          IF storage = "up"
          THEN db' = <<>> /\ counter' = 0
          ELSE db' = db /\ counter' = counter
    /\ (LogAfterClear(t) /\ storage = "up") =>
          /\ call'[t].inc = FormatId(1)
          /\ Stored(call'[t].inc)
          /\ get_incidents(1, NoFilter)' = <<db'[1]>>

\* C22: when the database can be written, after clear_all get_incidents
\* returns no records and the counter is zero, and the next log_event
\* returns INC-0001 and stores it; when it cannot, clear_all leaves the
\* counter as it was.
C22_ClearedWhenWritable == [][ClearedWhenWritable]_vars

\* The second event of a run logged as INC-0001 into the cleared table.
C22_LoggedAfterClear ==
    /\ storage = "up" /\ call["c1"].op = "log_event"
    /\ call["c1"].inc = FormatId(1) /\ now = 2
    /\ Len(db) = 1 /\ db[1].id = FormatId(1)

\* The pcs a healing thread is at after a log_event call returned.
AfterLog == {"restart", "get", "stop", "notify", "exit"}

LogFailsSoftly == (LogStep /\ storage = "down") =>
    /\ db' = db
    /\ counter' = counter + 1
    /\ \A t \in Callers : call'[t] # call[t] =>
          /\ call'[t].op = "log_event" /\ call'[t].result = "logged"
          /\ call'[t].view =
                <<[id |-> FormatId(counter'), timestamp |-> now',
                   app_id |-> call'[t].id, event |-> "crash", cause |-> "None",
                   details |-> "None", outcome |-> "None",
                   annotation |-> "None"]>>
    /\ \A w \in Workers : heal'[w] # heal[w] =>
          /\ heal'[w].pc \in AfterLog
          /\ Last(heal'[w].trail)[1] = "log"
          /\ heal'[w].pc = "exit" => Last(heal'[w].trail)[2] = "tier_1_recovery"
                                      \/ Last(heal'[w].trail)[2] = "tier_2_recovery"
                                      \/ Last(heal'[w].trail)[2] = "tier_3_recovery"

\* C23: a log_event whose INSERT fails returns the record with the next
\* identifier, the timestamp and the given fields without raising, and a
\* healing thread that logged goes on with the step after the log.
C23_LogFailsSoftly == [][LogFailsSoftly]_vars

\* A healing sequence escalated with nothing stored, after a caller's event.
C23_HealedUnlogged ==
    /\ storage = "down" /\ db = <<>> /\ counter = 5
    /\ call["c1"].op = "log_event"
    /\ \E w \in Workers :
          /\ heal[w].pc = "notify"
          /\ Last(heal[w].trail) = <<"log", "all_tiers_failed">>

\* Thread t's health request ends in this step.
ProbeStep(t) == call[t].pc = "ping" /\ call'[t].pc = "done"

ProbeMaps == \A t \in Threads : ProbeStep(t) =>
    LET resp == call'[t].resp
        after == objs'[call[t].svc]
    IN  /\ resp = "ok" => after.health = "healthy" /\ after.status = "running"
        /\ resp = "error" => after.health = "degraded" /\ after.status = "running"
        /\ resp = "refused" =>
              after.health = "unreachable" /\ after.status = "stopped"
        /\ after.last_health_check # None
        /\ call'[t].result \in {"healthy", "degraded", "unreachable"}

\* C24: a probe answered below 400 leaves health healthy and status running,
\* one answered with an error status health degraded and status running, a
\* refused connection health unreachable and status stopped; every outcome
\* sets last_health_check and returns a result.
C24_ProbeMaps == [][ProbeMaps]_vars

\* A never started service found degraded and running by check_health.
C24_ProbedDegraded ==
    /\ call["c1"].op = "check_health" /\ call["c1"].pc = "done"
    /\ call["c1"].resp = "error" /\ call["c1"].svc = reg["b"]
    /\ objs[reg["b"]].health = "degraded" /\ objs[reg["b"]].status = "running"
    /\ objs[reg["b"]].pid = None /\ objs[reg["b"]].last_health_check # None

TimedOut == {"timeout", "connect_timeout"}

TimeoutDegrades == \A t \in Threads :
    (ProbeStep(t) /\ call'[t].resp \in TimedOut) =>
        LET before == objs[call[t].svc]
            after == objs'[call[t].svc]
        IN  /\ after.health = "degraded"
            /\ after.status = before.status /\ after.pid = before.pid
            /\ after.started_at = before.started_at
            /\ after.restart_count = before.restart_count
            /\ call'[t].latency_ms = "3000"

\* C25: a probe that times out leaves health degraded, leaves status, pid,
\* start time and restart counter as they were and reports 3000 ms.
C25_TimeoutDegrades == [][TimeoutDegrades]_vars

\* Identifiers of the services of a group, ghosts included or not.
Belonging(group) ==
    {objs[reg[id]].id : id \in {i \in DOMAIN reg : objs[reg[i]].group = group}}

Members(group) == {id \in Belonging(group) : ~objs[reg[id]].ghost}

\* Thread t's group call visits a member in this step.
MemberStep(t) == call[t].pc = "group" /\ call'[t].pc = "group"

\* Thread t's group call returns in this step.
GroupReturns(t) == call[t].pc = "group" /\ call'[t].pc = "done"

\* The outcome a member in the target state is reported with, and the status
\* that is the target.
Target(op) == IF op = "start_group" THEN "running" ELSE "stopped"
Already(op) == IF op = "start_group" THEN "already_running" ELSE "already_stopped"
Acted(op) == IF op = "start_group" THEN "starting" ELSE "stopped"

GroupOutcomes(t) ==
    /\ MemberStep(t) =>
          LET svc == Values[call'[t].idx - 1]
              entry == Last(call'[t].view)
          IN  /\ Len(call'[t].view) = Len(call[t].view) + 1
              /\ entry[1] = objs[svc].id
              /\ IF objs[svc].status = Target(call[t].op)
                 THEN /\ entry[2] = Already(call[t].op)
                      /\ objs' = objs /\ alive' = alive
                      /\ call'[t].launches = call[t].launches
                 ELSE /\ entry[2] = Acted(call[t].op)
                      /\ Len(call'[t].launches) = Len(call[t].launches) + 1
    /\ GroupReturns(t) =>
          /\ {call'[t].view[k][1] : k \in DOMAIN call'[t].view} = Members(call[t].id)
          /\ Len(call'[t].view) = Cardinality(Members(call[t].id))

GroupAsStated == \A t \in Threads :
    /\ GroupOutcomes(t)
    /\ GroupReturns(t) =>
          (call'[t].result = "notfound" <=> Belonging(call[t].id) = {})

\* C26 as stated: start_group and stop_group return one entry for every
\* non-ghost member of the group and no other, leave members in the target
\* state alone and report them as such, and answer not found exactly when no
\* service belongs to the group.
C26_GroupAsStated == [][GroupAsStated]_vars

Group == \A t \in Threads :
    /\ GroupOutcomes(t)
    /\ GroupReturns(t) =>
          (call'[t].result = "notfound" <=> Members(call[t].id) = {})

\* C26: start_group and stop_group return one entry for every non-ghost
\* member of the group and no other, leave members in the target state alone
\* and report them as such, and answer not found exactly when the group has
\* no non-ghost member (no member at all, or ghosts only).
C26_Group == [][Group]_vars

\* start_group("core") returned with a running and b started.
C26_GroupStarted ==
    /\ call["c1"].op = "start_group" /\ call["c1"].pc = "done"
    /\ call["c1"].id = "core"
    /\ call["c1"].view = <<(<<"a", "already_running">>), (<<"b", "starting">>)>>
    /\ Len(call["c1"].launches) = 1

AllOps == LifecycleOps \cup {"check_health"}

Refused ==
    \A t \in Callers :
        /\ \A op \in AllOps :
              (Begins(t, op) /\ call'[t].id \notin DOMAIN reg) =>
                  /\ call'[t].pc = "done"
                  /\ call'[t].result = "notfound"
                  /\ call'[t].result \notin {"ghost", "conflict"}
                  /\ objs' = objs /\ alive' = alive
        /\ (Begins(t, "start_service") /\ call'[t].id \in DOMAIN reg
               /\ ~objs[reg[call'[t].id]].ghost
               /\ objs[reg[call'[t].id]].status = "running") =>
                  /\ call'[t].pc = "done"
                  /\ call'[t].result = "conflict"
                  /\ objs' = objs /\ alive' = alive

\* C27: start_service, stop_service, restart_service and check_health on an
\* unknown identifier return not found, which is neither the ghost nor the
\* conflict outcome, and change no service record; start_service on a
\* running service returns conflict and changes no service record.
C27_Refused == [][Refused]_vars

\* start_service refused on a running service, after a call on an unknown
\* identifier was answered not found.
C27_Conflict ==
    \E t \in Callers :
        /\ call[t].op = "start_service" /\ call[t].result = "conflict"
        /\ objs[call[t].svc].status = "running"
        /\ prev[t].result = "notfound"

\* The thread of worker w takes this step.
WorkerStep(w) == heal'[w] # heal[w] \/ call'[w] # call[w]

\* Worker u is inside _heal for a registered service.
Healing(u) == heal[u].pc \notin {"idle", "ended"} /\ heal[u].app \in DOMAIN reg

HealsApart ==
    /\ (hf' # hf /\ ~healing[hf'.app]) => hf'.outcome = "started"
    /\ \A w \in Workers : \A u \in Workers \ {w} :
          (WorkerStep(w) /\ Healing(u) /\ heal[u].app # heal[w].app) =>
              objs'[reg[heal[u].app]] = objs[reg[heal[u].app]]

\* C28: an on_health_failure call for a service without an active sequence
\* starts one whatever other sequences are active, and no step of a healing
\* sequence changes the record of a service that another service's sequence
\* is healing.
C28_HealsApart == [][HealsApart]_vars

\* The registered dependencies list of app_id; none for an unknown one.
DepsOf(app_id) ==
    IF app_id \in DOMAIN reg THEN objs[reg[app_id]].dependencies ELSE <<>>

\* Position of the first entry tok of trail T, or 0.
First(T, tok) ==
    IF \E k \in DOMAIN T : T[k] = tok
    THEN Min({k \in DOMAIN T : T[k] = tok}) ELSE 0

\* The calls of a tier: the entries of T after position k up to the next
\* re-check.
TierCalls(T, k) ==
    LET stops == {j \in (k + 1)..Len(T) : T[j][1] = "recheck"}
        end == IF stops = {} THEN Len(T) ELSE Min(stops) - 1
    IN  SubSeq(T, k + 1, end)

Rechecked(T, k) == \E j \in (k + 1)..Len(T) : T[j][1] = "recheck"

IsPrefix(s, t) == Len(s) <= Len(t) /\ s = SubSeq(t, 1, Len(s))

\* The restart_service calls of Tier 2, in order.
TierTwoCalls(app_id) ==
    [i \in 1..Len(DepsOf(app_id)) |-> <<"restart", DepsOf(app_id)[i]>>]
        \o << <<"restart", app_id>> >>

TierTwoOrder(w) ==
    LET T == heal[w].trail
        k == First(T, <<"log", "tier_1_failed">>)
    IN  k # 0 =>
          /\ IsPrefix(TierCalls(T, k), TierTwoCalls(heal[w].app))
          /\ Rechecked(T, k) => TierCalls(T, k) = TierTwoCalls(heal[w].app)
          /\ heal[w].pc \in {"wait", "check"} /\ heal[w].tier = 2 =>
                Last(TierCalls(T, k)) = <<"restart", heal[w].app>>

\* C29: in Tier 2 restart_service is called for every direct dependency of
\* the failing service, in the order of the list, before it is called for
\* the service itself, and the re-check comes only after the service's own
\* restart_service call returned.
C29_TierTwoOrder == \A w \in Workers : TierTwoOrder(w)

\* Tier 2 of a sequence for a re-checked after the restarts of b, g and a.
C29_TierTwoDone ==
    \E w \in Workers :
        /\ heal[w].app = "a" /\ heal[w].tier = 2 /\ heal[w].pc = "check"
        /\ call[w].pc = "done"
        /\ TierCalls(heal[w].trail, First(heal[w].trail, <<"log", "tier_1_failed">>))
              = << <<"restart", "b">>, <<"restart", "g">>, <<"restart", "a">> >>

\* The services Tier 3 stops and starts again: the failing service and its
\* direct dependencies that can be run at all.
TierThreeSet(app_id) ==
    {id \in {app_id} \cup {DepsOf(app_id)[i] : i \in DOMAIN DepsOf(app_id)} :
        id \in DOMAIN reg /\ ~objs[reg[id]].ghost}

\* Tier 3 has made all its stop_service calls and none of its start_service
\* calls yet.
AllStopped(w) ==
    /\ heal[w].pc = "startdeps" /\ heal[w].idx = 1 /\ call[w].pc = "done"

TierThreeStops(w) ==
    AllStopped(w) =>
        \A id \in TierThreeSet(heal[w].app) :
            /\ objs[reg[id]].status = "stopped"
            /\ ProcessesOf(id) = {}

\* C30: when Tier 3 starts anything again, the failing service and all its
\* direct dependencies are stopped: each has status "stopped" and no
\* process of it is left that was not sent the termination signal.
C30_TierThreeStops == \A w \in Workers : TierThreeStops(w)

\* The direct dependencies of the service of frame f.
DirectDeps(f) ==
    {objs[f.svc].dependencies[i] : i \in DOMAIN objs[f.svc].dependencies}

\* Thread t takes a step of a start_service call on a registered service.
StartStep(t) ==
    /\ call'[t] # call[t]
    /\ call'[t].op = "start_service" /\ call'[t].svc # None

\* A step of start_service(A) changes no service but A and its direct
\* dependencies; it launches A only after the loop over the dependencies;
\* on return the launches were those of the direct dependencies that were
\* not running, in declared order, and then that of A.
StartsOneLevel ==
    \A t \in Callers :
        StartStep(t) =>
            /\ \A id \in DOMAIN reg \ ({call'[t].id} \cup DirectDeps(call'[t])) :
                  /\ objs'[reg[id]] = objs[reg[id]]
                  /\ ProcessesOf(id)' = ProcessesOf(id)
            /\ \A k \in DOMAIN call'[t].launches :
                  call'[t].launches[k][1] = call'[t].id => k = Len(call'[t].launches)
            /\ StartReturned(call'[t]) =>
                  [k \in DOMAIN call'[t].launches |-> call'[t].launches[k][1]]
                      = ExpectedChain(call'[t]) \o <<call'[t].id>>

\* C31: start_service(A) spawns each direct dependency of A that is not
\* running before it spawns A itself, and never a dependency of a
\* dependency: with a depending on b, b on c and all stopped, b and then a
\* are spawned and c is left untouched.
C31_StartsOneLevel == [][StartsOneLevel]_vars

\* start_service(a) returned with a, b and c stopped before: b and then a
\* were launched and have a process each, c has none and is as loaded.
C31_ChainStarted ==
    \E t \in Callers :
        /\ StartReturned(call[t]) /\ call[t].id = "a"
        /\ call[t].launches = << <<"b", "ok", "stopped">>, <<"a", "ok", "starting">> >>
        /\ ProcessesOf("b") # {} /\ ProcessesOf("a") # {}
        /\ ProcessesOf("c") = {}
        /\ objs[reg["c"]] = LoadEntry(Chain[3])

StopReturned(f) == f.op = "stop_service" /\ f.pc = "done" /\ f.result = "stopped"

\* C32: after stop_service(id) returned its stopped result the service has
\* status stopped, no pid and no start timestamp, also when the recorded
\* process was gone: os.kill's no-such-process error is not raised to the
\* caller.
C32_Stopped ==
    \A t \in Callers :
        StopReturned(call[t]) =>
            /\ objs[call[t].svc].status = "stopped"
            /\ objs[call[t].svc].pid = None
            /\ objs[call[t].svc].started_at = None

\* stop_service returned stopped for a service whose process had ended
\* before the signal was sent.
C32_StoppedGone ==
    \E t \in Callers :
        /\ StopReturned(call[t]) /\ call[t].details = "gone"
        /\ call[t].id = "b"

\* A start_service or restart_service call that returned its normal result
\* and whose launch of the service itself did not start a process: Popen
\* raised, or there is no command to launch.
NotLaunched(f) ==
    /\ f.pc = "done"
    /\ \/ f.op = "start_service" /\ f.result = "starting"
       \/ f.op = "restart_service" /\ f.result = "restarting"
    /\ Last(f.launches)[1] = f.id
    /\ Last(f.launches)[2] \in {"fail", "skipped"}

\* C33: when the launch of a service's process fails, or the service cannot
\* be launched at all, start_service and restart_service return normally and
\* the service's status afterwards is stopped, with no pid recorded.
C33_LaunchFailsStopped ==
    \A t \in Callers :
        NotLaunched(call[t]) =>
            /\ objs[call[t].svc].status = "stopped"
            /\ objs[call[t].svc].pid = None

\* C34: no process is orphaned: every process launched for a service and not
\* yet sent a termination signal is the one the service's record names, so
\* that a new launch never overwrites, and nothing clears, the pid of an
\* unterminated process.
C34_NoOrphans ==
    \A q \in alive : objs[reg[q[2]]].pid = q[1]

\* A start, stop, restart or health operation that went past its guards and
\* has returned.
Finished(f) ==
    /\ f.op \in {"start_service", "stop_service", "restart_service", "check_health"}
    /\ f.pc = "done" /\ f.svc # None
    /\ f.result \in {"starting", "stopped", "restarting",
                     "healthy", "degraded", "unreachable"}

\* The fields an operation writes.
Written35(s) == <<s.status, s.pid, s.started_at, s.restart_count>>

\* C35: once an operation on service s and a reload_registry that ran while
\* it was in flight have both finished, the registry's record of s shows the
\* status, pid, start timestamp and restart counter the operation wrote.
C35_ReloadKeepsUpdate ==
    (\A t \in Callers : call[t].pc = "done") =>
        (Finished(call["c1"]) =>
            Written35(objs[reg[call["c1"].id]]) = Written35(objs[call["c1"].svc]))

\* C36: in every reachable state a service whose status is stopped has no
\* recorded pid and no start timestamp.
C36_StoppedHasNoPid ==
    \A id \in DOMAIN reg :
        objs[reg[id]].status = "stopped" =>
            /\ objs[reg[id]].pid = None
            /\ objs[reg[id]].started_at = None

\* A health loop that keeps running: the thread is alive and its while
\* test holds.
LoopKeepsRunning == hl.thread = "alive" /\ hl.running

\* C37: after any sequence of start_health_loop and stop_health_loop calls
\* that ends with start_health_loop, one health loop keeps running, also
\* when the start follows a stop before the old loop has woken up.
C37_OneLoopAfterStart == hl.last = "start" => LoopKeepsRunning

\* Tier 3 of the sequence of w has called start_service(id).
StartedByTier(w, id) ==
    \E k \in DOMAIN heal[w].trail : heal[w].trail[k] = <<"start", id>>

\* Tier 3's start_service(app_id) launches no dependency that Tier 3's own
\* start_service(dep_id) had launched: one whose status that call left at
\* starting.
DepsSpawnedOnce(w) ==
    (heal[w].tier = 3 /\ call[w].op = "start_service"
        /\ call[w].id = heal[w].app) =>
        \A k \in DOMAIN call[w].launches :
            LET e == call[w].launches[k]
            IN  (e[1] # heal[w].app /\ StartedByTier(w, e[1]) /\ e[2] = "ok")
                    => e[3] # "starting"

\* C38: during one Tier 3 run each direct dependency of the healed service
\* is spawned at most once: its explicit start is not followed by a second
\* spawn when the service itself is started.
C38_DepsSpawnedOnce == \A w \in Workers : DepsSpawnedOnce(w)

\* No call was made since the process started.
AtStartup == \A t \in Threads : call[t] = IdleFrame

\* C39: at startup the counter is the numerically highest stored sequence
\* number, also past the four digits of the format, so that the id the
\* first log_event returns is not stored yet.
C39_CounterAtStartup ==
    AtStartup =>
        /\ counter = MaxStored(db)
        /\ \A i \in DOMAIN db : db[i].id # FormatId(counter + 1)

\* Threads inside log_event, their id taken and their row not yet inserted.
Logging == {t \in Callers : call[t].op = "log_event" /\ call[t].pc # "done"}

====
